---------------------------- MODULE Spec2Model ----------------------------
(***************************************************************************)
(* A model of the OpenMP lowering/expansion pass gcc/omp-low.c (GCC 4.3.1) *)
(* and of the code it emits.  Each group of variables models one part of   *)
(* the pass; each specification initialises one group from bounded inputs  *)
(* and keeps the others idle.                                              *)
(***************************************************************************)
EXTENDS Integers, Sequences, FiniteSets, TLC

(***************************************************************************)
(* Bounds of the model.                                                    *)
(***************************************************************************)
\* Width in bits of the loop iterator's signed integer type (32 for int).
TypeBits == 4
\* Largest team size.
MaxThreads == 3
\* Largest chunk size of a schedule clause.
MaxChunk == 4
\* Width in bits of the type updated atomically.
AtomBits == 3
\* Largest value of the other operand of an atomic update.
MaxOperand == 2
\* Most iteration ranges the runtime hands to one thread of a loop.
MaxRanges == 2
\* Number of work-sharing regions in the parallel region.
MaxRegions == 2
\* Number of labels of a function.
MaxLabels == 2
\* Number of branch statements of a function.
MaxBranches == 2
\* Deepest nesting of directives around a directive.
MaxDepth == 3

(***************************************************************************)
(* Arithmetic of the iterator type: two's complement, TypeBits wide.       *)
(***************************************************************************)
RECURSIVE Pow2(_)
Pow2(k) == IF k = 0 THEN 1 ELSE 2 * Pow2(k - 1)

TypeMod == Pow2(TypeBits)
TypeMax == Pow2(TypeBits - 1) - 1
TypeMin == 0 - Pow2(TypeBits - 1)
TypeRange == TypeMin .. TypeMax

\* The value an operation of the iterator type leaves in a register when
\* the mathematical result is x.
Wrap(x) == ((x + Pow2(TypeBits - 1)) % TypeMod) - Pow2(TypeBits - 1)

Abs(x) == IF x < 0 THEN 0 - x ELSE x

\* TRUNC_DIV_EXPR: division rounding towards zero.
MathTruncDiv(a, b) ==
  IF (a >= 0) = (b > 0) THEN Abs(a) \div Abs(b) ELSE 0 - (Abs(a) \div Abs(b))

PLUS_EXPR(a, b) == Wrap(a + b)
MINUS_EXPR(a, b) == Wrap(a - b)
MULT_EXPR(a, b) == Wrap(a * b)
TRUNC_DIV_EXPR(a, b) == Wrap(MathTruncDiv(a, b))
MIN_EXPR(a, b) == IF a < b THEN a ELSE b
NE_EXPR(a, b) == IF a # b THEN 1 ELSE 0

\* fd->cond_code applied to two values.
CondHolds(code, a, b) == IF code = "LT_EXPR" THEN a < b ELSE a > b


(***************************************************************************)
(* State.                                                                  *)
(***************************************************************************)
\* Work-sharing loop: the loop header, its region, what expand_omp_for
\* emitted, and the team of threads running the emitted code.
VARIABLES
  fd,        \* struct omp_for_data of the loop
  region,    \* struct omp_region of the loop
  nthreads,  \* omp_get_num_threads () of the team
  emitted,   \* the expansion chosen and the runtime calls it placed
  pc,        \* pc[tid]: the basic block thread tid is about to execute
  loc,       \* loc[tid]: the temporaries of thread tid
  ran,       \* ran[tid][v]: how often thread tid ran BODY with V = v (2: more)
  trace      \* trace[tid]: runtime calls and bodies of thread tid, in order

loopVars == <<fd, region, nthreads, emitted, pc, loc, ran, trace>>

\* Atomic update: the OMP_ATOMIC_LOAD / OMP_ATOMIC_STORE pair, what
\* expand_omp_atomic made of it, and the threads running the emitted code
\* on one address.
VARIABLES
  atomic_stmt,     \* the atomic region as expand_omp_atomic finds it
  atomic_emitted,  \* the strategy chosen and the calls emitted
  mem,             \* *addr
  operand,         \* operand[tid]: the value of the other operand of the rhs
  apc,             \* apc[tid]: the block thread tid is about to execute
  aloc,            \* aloc[tid]: loadedi, loaded_val, stored_val, storedi, ...
  applied          \* the threads whose store reached *addr, in order, and
                   \* the value *addr had before the first

atomicVars == <<atomic_stmt, atomic_emitted, mem, operand, apc, aloc, applied>>

\* Barrier elision: one parallel region, the work-sharing regions in it and
\* how far the pass got with them.
VARIABLES
  par_exit,       \* region->exit of the parallel region and its statements
  ws_regions,     \* ws_regions[r]: a work-sharing region in the parallel
  barrier_phase   \* "built" after build_omp_regions, then "barriers_removed"

barrierVars == <<par_exit, ws_regions, barrier_phase>>

\* Structured-block diagnostics: the labels and branches of a function.
VARIABLES
  sb_labels,   \* sb_labels[l]: the constructs around LABEL_EXPR l
  all_labels,  \* the splay tree pass 1 fills: label -> context
  sb_stmts,    \* the branch statements of the function, in walk order
  sb_errors,   \* the errors reported, in order
  sb_next      \* 0 before pass 1, then the statement pass 2 looks at next

diagVars == <<sb_labels, all_labels, sb_stmts, sb_errors, sb_next>>

\* Nesting restrictions: one directive, the contexts around it and the
\* warnings scan_omp_1 issued for it.
VARIABLES
  nest_stmt,      \* the directive t
  nest_ctx,       \* ctx, ctx->outer, ...: the enclosing directives
  nest_warnings,  \* warnings issued
  nest_scanned    \* TRUE once scan_omp_1 has looked at t

nestVars == <<nest_stmt, nest_ctx, nest_warnings, nest_scanned>>

\* Parallel region: the OMP_PARALLEL statement, the region directly inside
\* it, and what scanning and expansion made of them.
VARIABLES
  par_stmt,    \* the OMP_PARALLEL statement, its clauses and its blocks
  par_inner,   \* region->inner: the region directly inside the parallel
  par_region,  \* struct omp_region of the parallel
  par_child,   \* the child function of the parallel (<<>>: none)
  par_calls,   \* the calls emitted at the place of the region, in order
  par_phase    \* "parsed", "scanned" or "dropped", "typed",
               \* "inner_expanded", "expanded"

parVars == <<par_stmt, par_inner, par_region, par_child, par_calls, par_phase>>

\* Data sharing: the clauses of one parallel construct, the variables they
\* name, and what scanning and lowering made of them.
VARIABLES
  sh_decls,   \* sh_decls[v]: the declaration of the variable named v
  sh_stmt,    \* the construct: its clauses, its body, is it nested
  sh_ctx,     \* its omp_context: decl_map, field_map, value expressions
  sh_parent,  \* the statements emitted around the construct, in the parent
  sh_child,   \* the pieces of the body that moves into the child function
  sh_ran,     \* sh_ran[tid]: the input setup statements thread tid ran
  sh_phase    \* "parsed", "scanned", "lowered"

shareVars ==
  <<sh_decls, sh_stmt, sh_ctx, sh_parent, sh_child, sh_ran, sh_phase>>

\* Lowering of one construct: the directive with its clauses and what
\* lower_omp_parallel, lower_omp_for or lower_omp_sections put in its place.
VARIABLES
  lw_stmt,  \* the directive: its code, clauses, sections, header
  lw_decls,  \* lw_decls[v]: the declaration of the variable named v
  lw_out,  \* the statements emitted, in order, each with its origin
  lw_phase  \* "parsed", then "lowered"

lowerVars ==
  <<lw_stmt, lw_decls, lw_out, lw_phase>>

\* Sections: the region of one OMP_SECTIONS, what expand_omp_sections made
\* of it, and the threads running the emitted code.
VARIABLES
  sec_region,  \* the sections region: its section regions, its blocks
  sec_emitted,  \* the calls and the switch expand_omp_sections placed
  sec_work,  \* the sections the runtime has not handed out yet
  sec_pc,  \* sec_pc[tid]: the block thread tid is about to execute
  sec_v,  \* sec_v[tid]: the token of thread tid
  sec_trace,  \* sec_trace[tid]: runtime calls and sections run, in order
  sec_phase  \* "built", then "expanded"

sectVars ==
  <<sec_region, sec_emitted, sec_work, sec_pc, sec_v, sec_trace, sec_phase>>

\* Critical constructs: the name-to-mutex table of the compilation and the
\* constructs lower_omp_critical has lowered so far.
VARIABLES
  critical_name_mutexes,  \* the splay tree: NULL_TREE, or <<name -> decl>>
  crit_lowered,  \* the constructs lowered, in order, with their calls
  next_decl_uid  \* DECL_UID of the next declaration created

critVars ==
  <<critical_name_mutexes, crit_lowered, next_decl_uid>>

\* Iteration count: one loop statement, its header as extract_omp_for_data
\* reads it and the count the static expansions compute from that.
VARIABLES
  ic_stmt,  \* the OMP_FOR statement as written
  ic_fd,  \* NULL_TREE, then <<struct omp_for_data>>
  ic_n  \* NULL_TREE, then <<n>>

countVars ==
  <<ic_stmt, ic_fd, ic_n>>

\* The contexts around a nested parallel and the scan of their bodies.
VARIABLES
  cx_decl,  \* the variable the nested parallel shares
  cx_chain,  \* the contexts around the nested parallel, innermost first
  cx_todo,  \* the part of the outer parallel body still to scan
  cx_field,  \* by_ref of the field the scan installed, once scanned
  cx_send,  \* the decision of lower_send_shared_vars, once lowered
  cx_recv  \* the decision of lower_rec_input_clauses, once lowered

ctxVars ==
  <<cx_decl, cx_chain, cx_todo, cx_field, cx_send, cx_recv>>

\* The lastprivate clause of a work-sharing loop.
VARIABLES
  lp_const,  \* which of STEP and N2 are integer constants
  lp_copied  \* lp_copied[tid]: the value of the lastprivate predicate, once tested

lastVars ==
  <<lp_const, lp_copied>>

\* The region tree: build_omp_regions, remove_exit_barriers, expand_omp.
VARIABLES
  idom,  \* idom[bb]: the immediate dominator of block bb, 0 for the entry
  last_stmt,  \* last_stmt[bb]: the code of the last statement of bb
  omp_regions,  \* the regions allocated so far
  root_omp_region,  \* the head of the list of toplevel regions, 0 if none
  bo_calls,  \* the calls of build_omp_regions_1 still to run: <<bb, parent>>
  bo_parent,  \* bo_parent[bb]: the parent build_omp_regions_1 got for bb
  rx_visited,  \* the regions remove_exit_barriers was called on
  ex_stack,  \* the frames of expand_omp: region and position
  ex_order,  \* the regions handed to an expander, in order
  ex_phase  \* the position of execute_expand_omp

regionVars ==
  <<idom, last_stmt, omp_regions, root_omp_region, bo_calls, bo_parent,
    rx_visited, ex_stack, ex_order, ex_phase>>

\* The self-assignment plugin: plugin_init over its arguments.
VARIABLES
  pi_argv,  \* plugin_info->argv: the key-value pairs, in order
  pi_version_ok,  \* what plugin_default_version_check answers
  pi_i,  \* the index of the next argument, from 1
  pi_enabled,  \* the local enabled
  check_operator_eq,  \* the global check_operator_eq
  pi_warnings,  \* the warnings given, in order
  pi_callbacks,  \* the events register_callback was called with, in order
  pi_return,  \* the value returned, once plugin_init has returned
  pi_pc  \* the position in plugin_init

pluginVars ==
  <<pi_argv, pi_version_ok, pi_i, pi_enabled, check_operator_eq,
    pi_warnings, pi_callbacks, pi_return, pi_pc>>

vars ==
  <<loopVars,
    atomicVars,
    barrierVars,
    diagVars,
    nestVars,
    parVars,
    shareVars,
    lowerVars,
    sectVars,
    critVars,
    countVars,
    ctxVars,
    lastVars,
    regionVars,
    pluginVars>>

\* What the actions of one group leave alone.
OtherThanLoop ==
  <<atomicVars, barrierVars, diagVars, nestVars, parVars, shareVars,
   lowerVars, sectVars, critVars, countVars, ctxVars, lastVars, regionVars,
   pluginVars>>
OtherThanAtomic ==
  <<loopVars, barrierVars, diagVars, nestVars, parVars, shareVars,
   lowerVars, sectVars, critVars, countVars, ctxVars, lastVars, regionVars,
   pluginVars>>
OtherThanBarrier ==
  <<loopVars, atomicVars, diagVars, nestVars, parVars, shareVars,
   lowerVars, sectVars, critVars, countVars, ctxVars, lastVars, regionVars,
   pluginVars>>
OtherThanDiag ==
  <<loopVars, atomicVars, barrierVars, nestVars, parVars, shareVars,
   lowerVars, sectVars, critVars, countVars, ctxVars, lastVars, regionVars,
   pluginVars>>
OtherThanNest ==
  <<loopVars, atomicVars, barrierVars, diagVars, parVars, shareVars,
   lowerVars, sectVars, critVars, countVars, ctxVars, lastVars, regionVars,
   pluginVars>>
OtherThanPar ==
  <<loopVars, atomicVars, barrierVars, diagVars, nestVars, shareVars,
   lowerVars, sectVars, critVars, countVars, ctxVars, lastVars, regionVars,
   pluginVars>>
OtherThanShare ==
  <<loopVars, atomicVars, barrierVars, diagVars, nestVars, parVars,
   lowerVars, sectVars, critVars, countVars, ctxVars, lastVars, regionVars,
   pluginVars>>
OtherThanLower ==
  <<loopVars, atomicVars, barrierVars, diagVars, nestVars, parVars,
   shareVars, sectVars, critVars, countVars, ctxVars, lastVars, regionVars,
   pluginVars>>
OtherThanSect ==
  <<loopVars, atomicVars, barrierVars, diagVars, nestVars, parVars,
   shareVars, lowerVars, critVars, countVars, ctxVars, lastVars, regionVars,
   pluginVars>>
OtherThanCrit ==
  <<loopVars, atomicVars, barrierVars, diagVars, nestVars, parVars,
   shareVars, lowerVars, sectVars, countVars, ctxVars, lastVars, regionVars,
   pluginVars>>
OtherThanCount ==
  <<loopVars, atomicVars, barrierVars, diagVars, nestVars, parVars,
   shareVars, lowerVars, sectVars, critVars, ctxVars, lastVars, regionVars,
   pluginVars>>
OtherThanCtx ==
  <<loopVars, atomicVars, barrierVars, diagVars, nestVars, parVars,
   shareVars, lowerVars, sectVars, critVars, countVars, lastVars,
   regionVars, pluginVars>>
OtherThanLast ==
  <<loopVars, atomicVars, barrierVars, diagVars, nestVars, parVars,
   shareVars, lowerVars, sectVars, critVars, countVars, ctxVars, regionVars,
   pluginVars>>
OtherThanRegion ==
  <<loopVars, atomicVars, barrierVars, diagVars, nestVars, parVars,
   shareVars, lowerVars, sectVars, critVars, countVars, ctxVars, lastVars,
   pluginVars>>
OtherThanPlugin ==
  <<loopVars, atomicVars, barrierVars, diagVars, nestVars, parVars,
   shareVars, lowerVars, sectVars, critVars, countVars, ctxVars, lastVars,
   regionVars>>

(***************************************************************************)
(* Each group before the pass reaches it.  A specification starts one      *)
(* group from its inputs and leaves the others idle.                       *)
(***************************************************************************)
NotExpanded == [shape |-> "none", calls |-> <<>>]

\* The loop group before any loop is looked at.
LoopIdle ==
  /\ fd = <<>> /\ region = <<>> /\ nthreads = 0 /\ emitted = NotExpanded
  /\ pc = <<>> /\ loc = <<>> /\ ran = <<>> /\ trace = <<>>

AtomicNotExpanded == [strategy |-> "none", calls |-> <<>>]

\* The atomic group before any atomic region is looked at.
AtomicIdle ==
  /\ atomic_stmt = <<>> /\ atomic_emitted = AtomicNotExpanded
  /\ mem = 0 /\ operand = <<>> /\ apc = <<>> /\ aloc = <<>>
  /\ applied = [initial |-> 0, order |-> <<>>]

\* The barrier group before any parallel region is looked at.
BarrierIdle ==
  /\ par_exit = <<>> /\ ws_regions = <<>> /\ barrier_phase = "none"

\* The diagnostics group before any function is looked at.
DiagIdle ==
  /\ sb_labels = <<>> /\ all_labels = <<>> /\ sb_stmts = <<>>
  /\ sb_errors = <<>> /\ sb_next = 0

\* The nesting group before any directive is scanned.
NestIdle ==
  /\ nest_stmt = <<>> /\ nest_ctx = <<>> /\ nest_warnings = <<>>
  /\ nest_scanned = FALSE

\* The parallel group before any parallel region is looked at.
ParIdle ==
  /\ par_stmt = <<>> /\ par_inner = <<>> /\ par_region = <<>>
  /\ par_child = <<>> /\ par_calls = <<>> /\ par_phase = "none"

\* The data-sharing group before any construct is scanned.
ShareIdle ==
  /\ sh_decls = <<>> /\ sh_stmt = <<>> /\ sh_ctx = <<>>
  /\ sh_parent = <<>> /\ sh_child = <<>> /\ sh_ran = <<>>
  /\ sh_phase = "none"

\* The lowering group before any construct is lowered.
LowerIdle ==
  /\ lw_stmt = <<>> /\ lw_decls = <<>> /\ lw_out = <<>>
  /\ lw_phase = "none"

\* The sections group before any sections region is expanded.
SectIdle ==
  /\ sec_region = <<>> /\ sec_emitted = <<>> /\ sec_work = {}
  /\ sec_pc = <<>> /\ sec_v = <<>> /\ sec_trace = <<>>
  /\ sec_phase = "none"

\* The critical group before any critical construct is lowered.
CritIdle ==
  /\ critical_name_mutexes = <<>> /\ crit_lowered = <<>>
  /\ next_decl_uid = 0

\* The count group before any loop is looked at.
CountIdle ==
  /\ ic_stmt = <<>> /\ ic_fd = <<>> /\ ic_n = <<>>

\* No nested parallel is being compiled.
CtxIdle ==
  /\ cx_decl = <<>>
  /\ cx_chain = <<>>
  /\ cx_todo = <<>>
  /\ cx_field = <<>>
  /\ cx_send = <<>>
  /\ cx_recv = <<>>

\* No loop with a lastprivate clause is being run.
LastIdle ==
  /\ lp_const = <<>>
  /\ lp_copied = <<>>

\* No function is being expanded.
RegionIdle ==
  /\ idom = <<>> /\ last_stmt = <<>> /\ omp_regions = <<>>
  /\ root_omp_region = 0 /\ bo_calls = <<>> /\ bo_parent = <<>>
  /\ rx_visited = {} /\ ex_stack = <<>> /\ ex_order = <<>>
  /\ ex_phase = "none"

\* The plugin is not loaded.
PluginIdle ==
  /\ pi_argv = <<>> /\ pi_version_ok = FALSE /\ pi_i = 0
  /\ pi_enabled = FALSE /\ check_operator_eq = TRUE
  /\ pi_warnings = <<>> /\ pi_callbacks = <<>> /\ pi_return = <<>>
  /\ pi_pc = "none"

IdleButLoop ==
  AtomicIdle /\ BarrierIdle /\ DiagIdle /\ NestIdle /\ ParIdle /\
    ShareIdle /\ LowerIdle /\ SectIdle /\ CritIdle /\ CountIdle /\
    CtxIdle /\ LastIdle /\ RegionIdle /\ PluginIdle
IdleButAtomic ==
  LoopIdle /\ BarrierIdle /\ DiagIdle /\ NestIdle /\ ParIdle /\
    ShareIdle /\ LowerIdle /\ SectIdle /\ CritIdle /\ CountIdle /\
    CtxIdle /\ LastIdle /\ RegionIdle /\ PluginIdle
IdleButBarrier ==
  LoopIdle /\ AtomicIdle /\ DiagIdle /\ NestIdle /\ ParIdle /\ ShareIdle /\
    LowerIdle /\ SectIdle /\ CritIdle /\ CountIdle /\ CtxIdle /\
    LastIdle /\ RegionIdle /\ PluginIdle
IdleButDiag ==
  LoopIdle /\ AtomicIdle /\ BarrierIdle /\ NestIdle /\ ParIdle /\
    ShareIdle /\ LowerIdle /\ SectIdle /\ CritIdle /\ CountIdle /\
    CtxIdle /\ LastIdle /\ RegionIdle /\ PluginIdle
IdleButNest ==
  LoopIdle /\ AtomicIdle /\ BarrierIdle /\ DiagIdle /\ ParIdle /\
    ShareIdle /\ LowerIdle /\ SectIdle /\ CritIdle /\ CountIdle /\
    CtxIdle /\ LastIdle /\ RegionIdle /\ PluginIdle
IdleButPar ==
  LoopIdle /\ AtomicIdle /\ BarrierIdle /\ DiagIdle /\ NestIdle /\
    ShareIdle /\ LowerIdle /\ SectIdle /\ CritIdle /\ CountIdle /\
    CtxIdle /\ LastIdle /\ RegionIdle /\ PluginIdle
IdleButShare ==
  LoopIdle /\ AtomicIdle /\ BarrierIdle /\ DiagIdle /\ NestIdle /\
    ParIdle /\ LowerIdle /\ SectIdle /\ CritIdle /\ CountIdle /\ CtxIdle /\
    LastIdle /\ RegionIdle /\ PluginIdle
IdleButLower ==
  LoopIdle /\ AtomicIdle /\ BarrierIdle /\ DiagIdle /\ NestIdle /\
    ParIdle /\ ShareIdle /\ SectIdle /\ CritIdle /\ CountIdle /\ CtxIdle /\
    LastIdle /\ RegionIdle /\ PluginIdle
IdleButSect ==
  LoopIdle /\ AtomicIdle /\ BarrierIdle /\ DiagIdle /\ NestIdle /\
    ParIdle /\ ShareIdle /\ LowerIdle /\ CritIdle /\ CountIdle /\
    CtxIdle /\ LastIdle /\ RegionIdle /\ PluginIdle
IdleButCrit ==
  LoopIdle /\ AtomicIdle /\ BarrierIdle /\ DiagIdle /\ NestIdle /\
    ParIdle /\ ShareIdle /\ LowerIdle /\ SectIdle /\ CountIdle /\
    CtxIdle /\ LastIdle /\ RegionIdle /\ PluginIdle
IdleButCount ==
  LoopIdle /\ AtomicIdle /\ BarrierIdle /\ DiagIdle /\ NestIdle /\
    ParIdle /\ ShareIdle /\ LowerIdle /\ SectIdle /\ CritIdle /\ CtxIdle /\
    LastIdle /\ RegionIdle /\ PluginIdle
IdleButCtx ==
  LoopIdle /\ AtomicIdle /\ BarrierIdle /\ DiagIdle /\ NestIdle /\
    ParIdle /\ ShareIdle /\ LowerIdle /\ SectIdle /\ CritIdle /\
    CountIdle /\ LastIdle /\ RegionIdle /\ PluginIdle
IdleButLast ==
  LoopIdle /\ AtomicIdle /\ BarrierIdle /\ DiagIdle /\ NestIdle /\
    ParIdle /\ ShareIdle /\ LowerIdle /\ SectIdle /\ CritIdle /\
    CountIdle /\ CtxIdle /\ RegionIdle /\ PluginIdle
IdleButRegion ==
  LoopIdle /\ AtomicIdle /\ BarrierIdle /\ DiagIdle /\ NestIdle /\
    ParIdle /\ ShareIdle /\ LowerIdle /\ SectIdle /\ CritIdle /\
    CountIdle /\ CtxIdle /\ LastIdle /\ PluginIdle
IdleButPlugin ==
  LoopIdle /\ AtomicIdle /\ BarrierIdle /\ DiagIdle /\ NestIdle /\
    ParIdle /\ ShareIdle /\ LowerIdle /\ SectIdle /\ CritIdle /\
    CountIdle /\ CtxIdle /\ LastIdle /\ RegionIdle

(***************************************************************************)
(* extract_omp_for_data                                                    *)
(***************************************************************************)
ScheduleKinds ==
  {"OMP_CLAUSE_SCHEDULE_STATIC", "OMP_CLAUSE_SCHEDULE_DYNAMIC",
   "OMP_CLAUSE_SCHEDULE_GUIDED", "OMP_CLAUSE_SCHEDULE_RUNTIME"}

\* enum omp_clause_schedule_kind as a number.
SchedIndex(kind) ==
  CASE kind = "OMP_CLAUSE_SCHEDULE_STATIC" -> 0
    [] kind = "OMP_CLAUSE_SCHEDULE_DYNAMIC" -> 1
    [] kind = "OMP_CLAUSE_SCHEDULE_GUIDED" -> 2
    [] kind = "OMP_CLAUSE_SCHEDULE_RUNTIME" -> 3

\* A tree that may be absent: <<>> is NULL_TREE, <<c>> the expression c.
NULL_TREE == <<>>

\* A loop statement as the front end hands it over: V = N1; V cond N2;
\* V = V incr S, and its clauses.
ForStmts(N1s, N2s, Ss) ==
  [n1 : N1s, n2 : N2s, cond : {"LT_EXPR", "GT_EXPR", "LE_EXPR", "GE_EXPR"},
   incr : {"PLUS_EXPR", "MINUS_EXPR"}, s : Ss,
   nowait : BOOLEAN, ordered : BOOLEAN, sched : ScheduleKinds \cup {"none"},
   chunk : {NULL_TREE} \cup {<<c>> : c \in 1 .. MaxChunk}]

\* The cond_code and n2 after the switch on the condition.
NormalizeCond(for_stmt) ==
  CASE for_stmt.cond = "LT_EXPR" -> [cond_code |-> "LT_EXPR", n2 |-> for_stmt.n2]
    [] for_stmt.cond = "GT_EXPR" -> [cond_code |-> "GT_EXPR", n2 |-> for_stmt.n2]
    [] for_stmt.cond = "LE_EXPR" ->
         [cond_code |-> "LT_EXPR", n2 |-> PLUS_EXPR(for_stmt.n2, 1)]
    [] for_stmt.cond = "GE_EXPR" ->
         [cond_code |-> "GT_EXPR", n2 |-> MINUS_EXPR(for_stmt.n2, 1)]

\* The step after the switch on the increment.
NormalizeStep(for_stmt) ==
  IF for_stmt.incr = "PLUS_EXPR" THEN for_stmt.s ELSE Wrap(0 - for_stmt.s)

\* The chunk size after the clauses were read.
DefaultChunk(sched_kind, have_ordered, chunk) ==
  IF sched_kind = "OMP_CLAUSE_SCHEDULE_RUNTIME" THEN NULL_TREE
  ELSE IF chunk = NULL_TREE
         THEN IF sched_kind # "OMP_CLAUSE_SCHEDULE_STATIC" \/ have_ordered
                THEN IF sched_kind = "OMP_CLAUSE_SCHEDULE_STATIC"
                       THEN <<0>> ELSE <<1>>
                ELSE NULL_TREE
         ELSE chunk

extract_omp_for_data(for_stmt) ==
  LET c == NormalizeCond(for_stmt)
      kind == IF for_stmt.sched = "none" THEN "OMP_CLAUSE_SCHEDULE_STATIC"
              ELSE for_stmt.sched
      chunk == IF for_stmt.sched = "none" THEN NULL_TREE ELSE for_stmt.chunk
  IN [n1 |-> for_stmt.n1, n2 |-> c.n2, step |-> NormalizeStep(for_stmt),
      cond_code |-> c.cond_code,
      have_nowait |-> for_stmt.nowait, have_ordered |-> for_stmt.ordered,
      sched_kind |-> kind,
      chunk_size |-> DefaultChunk(kind, for_stmt.ordered, chunk)]

\* The front end never hands over schedule(runtime) with a chunk
\* (extract_omp_for_data asserts it).
WellFormedFor(for_stmt) ==
  /\ for_stmt.sched = "OMP_CLAUSE_SCHEDULE_RUNTIME" => for_stmt.chunk = NULL_TREE
  /\ for_stmt.sched = "none" => for_stmt.chunk = NULL_TREE
  /\ for_stmt.s # 0

(***************************************************************************)
(* The source loop, run sequentially with unbounded integers.              *)
(***************************************************************************)
SrcCond(for_stmt, v) ==
  CASE for_stmt.cond = "LT_EXPR" -> v < for_stmt.n2
    [] for_stmt.cond = "GT_EXPR" -> v > for_stmt.n2
    [] for_stmt.cond = "LE_EXPR" -> v <= for_stmt.n2
    [] for_stmt.cond = "GE_EXPR" -> v >= for_stmt.n2

SrcIncr(for_stmt, v) ==
  IF for_stmt.incr = "PLUS_EXPR" THEN v + for_stmt.s ELSE v - for_stmt.s

\* The values of V for which the source loop runs BODY, first to last; the
\* walk stops when V leaves the iterator type.
RECURSIVE SrcIterations(_, _)
SrcIterations(for_stmt, v) ==
  IF v \in TypeRange /\ SrcCond(for_stmt, v)
    THEN <<v>> \o SrcIterations(for_stmt, SrcIncr(for_stmt, v))
    ELSE <<>>

\* The value of V when the source loop ends.
RECURSIVE SrcFinalV(_, _)
SrcFinalV(for_stmt, v) ==
  IF v \in TypeRange /\ SrcCond(for_stmt, v)
    THEN SrcFinalV(for_stmt, SrcIncr(for_stmt, v))
    ELSE v

\* A loop a conforming program can contain: the increment moves V towards
\* the bound and V never overflows.
ConformingFor(for_stmt) ==
  /\ WellFormedFor(for_stmt)
  /\ (for_stmt.cond \in {"LT_EXPR", "LE_EXPR"})
       = (SrcIncr(for_stmt, 0) > 0)
  /\ SrcFinalV(for_stmt, for_stmt.n1) \in TypeRange

(***************************************************************************)
(* expand_omp_for and the three expansions, at compile time: the runtime   *)
(* calls each one places, by basic block.                                  *)
(***************************************************************************)
Call(bb, fn, ix, nargs) == [bb |-> bb, fn |-> fn, ix |-> ix, nargs |-> nargs]

\* "Replace the OMP_RETURN with a barrier, or nothing."
StaticExitCalls(reg) ==
  IF ~reg.nowait THEN <<Call("exit_bb", "GOMP_barrier", 0, 0)>> ELSE <<>>

expand_omp_for_static_nochunk_calls(reg, f) == StaticExitCalls(reg)

expand_omp_for_static_chunk_calls(reg, f) == StaticExitCalls(reg)

\* start_ix and next_ix are BUILT_IN_GOMP_LOOP_STATIC_START + fn_index and
\* BUILT_IN_GOMP_LOOP_STATIC_NEXT + fn_index: a call is named by the family
\* and fn_index.
expand_omp_for_generic_calls(reg, f, fn_index) ==
  LET in_combined_parallel == reg.is_combined_parallel
      broken_loop == ~reg.cont
      entry == IF in_combined_parallel
                 THEN <<Call("entry_bb", "GOMP_loop_next", fn_index, 2)>>
                 ELSE <<Call("entry_bb", "GOMP_loop_start", fn_index,
                             IF f.chunk_size # NULL_TREE THEN 6 ELSE 5)>>
      l2 == IF ~broken_loop
              THEN <<Call("l2_bb", "GOMP_loop_next", fn_index, 2)>>
              ELSE <<>>
      exit == IF reg.nowait
                THEN <<Call("exit_bb", "GOMP_loop_end_nowait", 0, 0)>>
                ELSE <<Call("exit_bb", "GOMP_loop_end", 0, 0)>>
  IN entry \o l2 \o exit

\* The selecting test without the look at the ordered clause.
UseStaticExpansionIgnoringOrdered(reg, f) ==
  /\ f.sched_kind = "OMP_CLAUSE_SCHEDULE_STATIC"
  /\ reg.cont

\* The test that selects the open-coded static expansions.
UseStaticExpansion(reg, f) ==
  /\ f.sched_kind = "OMP_CLAUSE_SCHEDULE_STATIC"
  /\ ~f.have_ordered
  /\ reg.cont

expand_omp_for_result(reg, f) ==
  IF UseStaticExpansion(reg, f)
    THEN IF f.chunk_size = NULL_TREE
           THEN [shape |-> "static_nochunk",
                 calls |-> expand_omp_for_static_nochunk_calls(reg, f)]
           ELSE [shape |-> "static_chunk",
                 calls |-> expand_omp_for_static_chunk_calls(reg, f)]
    ELSE LET fn_index == SchedIndex(f.sched_kind)
                           + (IF f.have_ordered THEN 1 ELSE 0) * 4
         IN [shape |-> "generic",
             calls |-> expand_omp_for_generic_calls(reg, f, fn_index)]

Threads == 0 .. nthreads - 1

\* The temporaries of a thread before the loop: nothing is assigned yet
\* (Vdef tells whether V has been assigned).
LocInit ==
  [n |-> 0, q |-> 0, s0 |-> 0, e0 |-> 0, e |-> 0, V |-> 0, Vdef |-> FALSE,
   trip |-> 0, v_extra |-> 0, istart0 |-> 0, iend0 |-> 0, iend |-> 0,
   more |-> FALSE]

\* A loop statement for_stmt in region reg reaches expand_omp_for, and a
\* team of nt threads will run what it emits.
LoopStart(for_stmt, reg, nt) ==
  /\ fd = extract_omp_for_data(for_stmt)
  /\ region = reg
  /\ nthreads = nt
  /\ emitted = NotExpanded
  /\ pc = [t \in 0 .. nt - 1 |-> "entry_bb"]
  /\ loc = [t \in 0 .. nt - 1 |-> LocInit]
  /\ ran = [t \in 0 .. nt - 1 |-> [v \in TypeRange |-> 0]]
  /\ trace = [t \in 0 .. nt - 1 |-> <<>>]

\* expand_omp_for: the whole compile-time step.
expand_omp_for ==
  /\ emitted.shape = "none"
  /\ nthreads > 0
  /\ ~(region.is_combined_parallel /\ ~region.cont)
  /\ emitted' = expand_omp_for_result(region, fd)
  /\ UNCHANGED <<fd, region, nthreads, pc, loc, ran, trace>>
  /\ UNCHANGED OtherThanLoop

(***************************************************************************)
(* The code expand_omp_for_static_nochunk emits, run by thread tid.        *)
(***************************************************************************)
\* n = (adj + N2 - N1) / STEP, built as (STEP + adj) + N2 - N1.
IterCount(f) ==
  LET t0 == IF f.cond_code = "LT_EXPR" THEN 0 - 1 ELSE 1
      t1 == PLUS_EXPR(f.step, t0)
      t2 == PLUS_EXPR(t1, f.n2)
      t3 == MINUS_EXPR(t2, f.n1)
  IN TRUNC_DIV_EXPR(t3, f.step)

\* q = n / nthreads; q += (q * nthreads != n).
NochunkQ(n, nthr) ==
  LET q0 == TRUNC_DIV_EXPR(n, nthr)
  IN PLUS_EXPR(q0, NE_EXPR(MULT_EXPR(q0, nthr), n))

NochunkS0(q, threadid) == MULT_EXPR(q, threadid)

NochunkE0(s0, q, n) == MIN_EXPR(PLUS_EXPR(s0, q), n)

\* V (or e) = s0 * STEP + N1.
IterToV(i, f) == PLUS_EXPR(MULT_EXPR(i, f.step), f.n1)

Bump(k) == IF k >= 2 THEN 2 ELSE k + 1

RunBody(tid) ==
  ran' = [ran EXCEPT ![tid][loc[tid].V] = Bump(@)]

nochunk_entry_bb(tid) ==
  /\ emitted.shape = "static_nochunk"
  /\ pc[tid] = "entry_bb"
  /\ LET n == IterCount(fd)
         q == NochunkQ(n, nthreads)
         s0 == NochunkS0(q, tid)
         e0 == NochunkE0(s0, q, n)
     IN /\ loc' = [loc EXCEPT ![tid].n = n, ![tid].q = q,
                              ![tid].s0 = s0, ![tid].e0 = e0]
        /\ pc' = [pc EXCEPT ![tid] =
                    IF s0 >= e0 THEN "exit_bb" ELSE "seq_start_bb"]
  /\ UNCHANGED <<fd, region, nthreads, emitted, ran, trace>>
  /\ UNCHANGED OtherThanLoop

nochunk_seq_start_bb(tid) ==
  /\ emitted.shape = "static_nochunk"
  /\ pc[tid] = "seq_start_bb"
  /\ loc' = [loc EXCEPT ![tid].V = IterToV(loc[tid].s0, fd),
                        ![tid].Vdef = TRUE,
                        ![tid].e = IterToV(loc[tid].e0, fd)]
  /\ pc' = [pc EXCEPT ![tid] = "body_bb"]
  /\ UNCHANGED <<fd, region, nthreads, emitted, ran, trace>>
  /\ UNCHANGED OtherThanLoop

\* BODY, then the increment and the test that replace OMP_CONTINUE.
nochunk_body_bb(tid) ==
  /\ emitted.shape = "static_nochunk"
  /\ pc[tid] = "body_bb"
  /\ RunBody(tid)
  /\ LET vback == PLUS_EXPR(loc[tid].V, fd.step)
     IN /\ loc' = [loc EXCEPT ![tid].V = vback]
        /\ pc' = [pc EXCEPT ![tid] =
                    IF CondHolds(fd.cond_code, vback, loc[tid].e)
                      THEN "body_bb" ELSE "exit_bb"]
  /\ UNCHANGED <<fd, region, nthreads, emitted, trace>>
  /\ UNCHANGED OtherThanLoop

\* The calls placed in exit_bb, in order.
ExitCalls ==
  SelectSeq(emitted.calls, LAMBDA c : c.bb = "exit_bb")

static_exit_bb(tid) ==
  /\ emitted.shape \in {"static_nochunk", "static_chunk"}
  /\ pc[tid] = "exit_bb"
  /\ trace' = [trace EXCEPT ![tid] = @ \o ExitCalls]
  /\ pc' = [pc EXCEPT ![tid] = "done"]
  /\ UNCHANGED <<fd, region, nthreads, emitted, loc, ran>>
  /\ UNCHANGED OtherThanLoop

(***************************************************************************)
(* Specification: a static loop without chunk, expanded and run by a team. *)
(***************************************************************************)
\* Values of N1 the loops of the model start from.
N1Range == (0 - 1) .. 1
\* Sizes of the increment.
StepRange == 1 .. 2

Regions(conts, combineds) ==
  [cont : conts, is_combined_parallel : combineds, nowait : BOOLEAN]

\* determine_parallel_type: a loop is combined with its parallel only if it
\* has a continue block and a schedule clause other than static, and is not
\* ordered.
CombinableFor(for_stmt, reg) ==
  reg.is_combined_parallel =>
    /\ reg.cont
    /\ for_stmt.sched \notin {"none", "OMP_CLAUSE_SCHEDULE_STATIC"}
    /\ ~for_stmt.ordered

NochunkLoops ==
  {f \in ForStmts(N1Range, TypeRange, StepRange) :
     /\ ConformingFor(f)
     /\ f.sched \in {"none", "OMP_CLAUSE_SCHEDULE_STATIC"}
     /\ f.chunk = NULL_TREE
     /\ ~f.ordered}

InitNochunk ==
  /\ \E f \in NochunkLoops, reg \in Regions({TRUE}, {FALSE}),
        nt \in 1 .. MaxThreads :
       /\ f.nowait => reg.nowait
       /\ LoopStart(f, reg, nt)
  /\ IdleButLoop

NextNochunk ==
  \/ expand_omp_for
  \/ \E tid \in Threads : nochunk_entry_bb(tid)
  \/ \E tid \in Threads : nochunk_seq_start_bb(tid)
  \/ \E tid \in Threads : nochunk_body_bb(tid)
  \/ \E tid \in Threads : static_exit_bb(tid)

SpecNochunk == InitNochunk /\ [][NextNochunk]_vars

\* The loop fd describes, run sequentially with unbounded integers: the
\* number of times BODY runs.
RECURSIVE SeqCount(_, _)
SeqCount(f, v) ==
  IF v \in TypeRange /\ CondHolds(f.cond_code, v, f.n2)
    THEN 1 + SeqCount(f, v + f.step)
    ELSE 0

AllDone == \A t \in Threads : pc[t] = "done"

\* n / nthreads rounded up, with unbounded integers (n >= 0).
CeilDiv(n, d) == (n + d - 1) \div d

MathMin(a, b) == IF a < b THEN a ELSE b

\* The logical iterations [s0, e0) the static schedule without chunk gives
\* thread tid.
NochunkShare(n, nthr, tid) ==
  LET q == CeilDiv(n, nthr)
      s0 == q * tid
      e0 == MathMin(s0 + q, n)
  IN s0 .. (e0 - 1)

\* C1: once every thread of the team has left the loop emitted by
\* expand_omp_for_static_nochunk, for an iteration count n >= 0, thread tid
\* has run BODY exactly once for each logical iteration of
\* [q*tid, min(q*tid + q, n)), q = n / nthreads rounded up, and for nothing
\* else; so every iteration of 0 .. n-1 was run exactly once over the team.
C1_NochunkPartition ==
  (emitted.shape = "static_nochunk" /\ AllDone
   /\ loc[0].n >= 0 /\ loc[0].n = SeqCount(fd, fd.n1))
  => LET n == loc[0].n
     IN /\ \A t \in Threads : \A v \in TypeRange :
             ran[t][v] = IF \E i \in NochunkShare(n, nthreads, t) :
                               v = fd.n1 + i * fd.step
                           THEN 1 ELSE 0
        /\ \A i \in 0 .. (n - 1) :
             Cardinality({t \in Threads : ran[t][fd.n1 + i * fd.step] = 1}) = 1

(***************************************************************************)
(* The code expand_omp_for_static_chunk emits, run by thread tid.          *)
(***************************************************************************)
\* The emitted code shares no variable between the threads of the team, so
\* the order in which their steps interleave changes nothing: the team is run
\* one thread at a time, each to the end of its loop, in any order.
Alone(tid) ==
  \A t \in Threads \ {tid} : pc[t] \in {"entry_bb", "done"}

\* s0 = (trip * nthreads + threadid) * CHUNK.
ChunkS0(trip, nthr, threadid, chunk) ==
  MULT_EXPR(PLUS_EXPR(MULT_EXPR(trip, nthr), threadid), chunk)

ChunkE0(s0, chunk, n) == MIN_EXPR(PLUS_EXPR(s0, chunk), n)

\* The test that ends iter_part_bb: true enters the sequential loop.
ChunkEnter(s0, n) == s0 < n

\* Trip and adjustment setup.  v_extra is computed into a temporary; it
\* reaches V only through the phi nodes built in SSA form.
chunk_entry_bb(tid) ==
  /\ emitted.shape = "static_chunk"
  /\ Alone(tid)
  /\ pc[tid] = "entry_bb"
  /\ loc' = [loc EXCEPT
               ![tid].n = IterCount(fd),
               ![tid].trip = 0,
               ![tid].v_extra =
                  PLUS_EXPR(MULT_EXPR(MULT_EXPR(tid, fd.chunk_size[1]),
                                      fd.step), fd.n1)]
  /\ pc' = [pc EXCEPT ![tid] = "iter_part_bb"]
  /\ UNCHANGED <<fd, region, nthreads, emitted, ran, trace>>
  /\ UNCHANGED OtherThanLoop

chunk_iter_part_bb(tid) ==
  /\ emitted.shape = "static_chunk"
  /\ Alone(tid)
  /\ pc[tid] = "iter_part_bb"
  /\ LET s0 == ChunkS0(loc[tid].trip, nthreads, tid, fd.chunk_size[1])
         e0 == ChunkE0(s0, fd.chunk_size[1], loc[tid].n)
     IN /\ loc' = [loc EXCEPT ![tid].s0 = s0, ![tid].e0 = e0]
        /\ pc' = [pc EXCEPT ![tid] =
                    IF ChunkEnter(s0, loc[tid].n)
                      THEN "seq_start_bb" ELSE "exit_bb"]
  /\ UNCHANGED <<fd, region, nthreads, emitted, ran, trace>>
  /\ UNCHANGED OtherThanLoop

chunk_seq_start_bb(tid) ==
  /\ emitted.shape = "static_chunk"
  /\ Alone(tid)
  /\ pc[tid] = "seq_start_bb"
  /\ loc' = [loc EXCEPT ![tid].V = IterToV(loc[tid].s0, fd),
                        ![tid].Vdef = TRUE,
                        ![tid].e = IterToV(loc[tid].e0, fd)]
  /\ pc' = [pc EXCEPT ![tid] = "body_bb"]
  /\ UNCHANGED <<fd, region, nthreads, emitted, ran, trace>>
  /\ UNCHANGED OtherThanLoop

chunk_body_bb(tid) ==
  /\ emitted.shape = "static_chunk"
  /\ Alone(tid)
  /\ pc[tid] = "body_bb"
  /\ RunBody(tid)
  /\ LET v_back == PLUS_EXPR(loc[tid].V, fd.step)
     IN /\ loc' = [loc EXCEPT ![tid].V = v_back]
        /\ pc' = [pc EXCEPT ![tid] =
                    IF CondHolds(fd.cond_code, v_back, loc[tid].e)
                      THEN "body_bb" ELSE "trip_update_bb"]
  /\ UNCHANGED <<fd, region, nthreads, emitted, trace>>
  /\ UNCHANGED OtherThanLoop

chunk_trip_update_bb(tid) ==
  /\ emitted.shape = "static_chunk"
  /\ Alone(tid)
  /\ pc[tid] = "trip_update_bb"
  /\ loc' = [loc EXCEPT ![tid].trip = PLUS_EXPR(loc[tid].trip, 1)]
  /\ pc' = [pc EXCEPT ![tid] = "iter_part_bb"]
  /\ UNCHANGED <<fd, region, nthreads, emitted, ran, trace>>
  /\ UNCHANGED OtherThanLoop

(***************************************************************************)
(* Specification: a static loop with a chunk, expanded and run by a team.  *)
(***************************************************************************)
ChunkLoops ==
  {f \in ForStmts(N1Range, TypeRange, StepRange) :
     /\ ConformingFor(f)
     /\ f.sched = "OMP_CLAUSE_SCHEDULE_STATIC"
     /\ f.chunk # NULL_TREE
     /\ ~f.ordered
     /\ ~f.nowait}

InitChunk ==
  /\ \E f \in ChunkLoops, reg \in Regions({TRUE}, {FALSE}),
        nt \in 1 .. MaxThreads :
       /\ ~reg.nowait
       /\ LoopStart(f, reg, nt)
  /\ IdleButLoop

NextChunk ==
  \/ expand_omp_for
  \/ \E tid \in Threads : chunk_entry_bb(tid)
  \/ \E tid \in Threads : chunk_iter_part_bb(tid)
  \/ \E tid \in Threads : chunk_seq_start_bb(tid)
  \/ \E tid \in Threads : chunk_body_bb(tid)
  \/ \E tid \in Threads : chunk_trip_update_bb(tid)
  \/ \E tid \in Threads : static_exit_bb(tid)

SpecChunk == InitChunk /\ [][NextChunk]_vars

\* The logical iterations the static schedule with a chunk gives thread tid
\* over all its trips: trip t covers [(t*nthreads + tid)*chunk, ... + chunk).
ChunkShare(n, nthr, chunk, tid) ==
  {i \in 0 .. (n - 1) : (i \div chunk) % nthr = tid}

\* C2: in the loop emitted by expand_omp_for_static_chunk, for n >= 0 and
\* chunk >= 1, thread tid never runs BODY for anything but its own logical
\* iterations (those of its trips, below n), never runs one twice, and once
\* it has left the loop it has run each of them; so over the team every
\* iteration of 0 .. n-1 is run exactly once and nothing else is.
C2_ChunkPartition ==
  (emitted.shape = "static_chunk"
   /\ IterCount(fd) >= 0 /\ IterCount(fd) = SeqCount(fd, fd.n1)
   /\ fd.chunk_size[1] >= 1)
  => LET n == IterCount(fd)
         Mine(t, v) == \E i \in ChunkShare(n, nthreads, fd.chunk_size[1], t) :
                          v = fd.n1 + i * fd.step
     IN \A t \in Threads : \A v \in TypeRange :
          /\ ran[t][v] <= (IF Mine(t, v) THEN 1 ELSE 0)
          /\ (pc[t] = "done" /\ Mine(t, v)) => ran[t][v] = 1

(***************************************************************************)
(* expand_omp_atomic: the choice between the fetch-op builtin, the         *)
(* compare-and-swap loop and the mutex.                                    *)
(***************************************************************************)
\* exact_log2: the logarithm of a power of two, -1 for any other number.
RECURSIVE exact_log2(_)
exact_log2(x) ==
  IF x = 1 THEN 0
  ELSE IF x < 1 \/ x % 2 = 1 THEN 0 - 1
  ELSE LET l == exact_log2(x \div 2) IN IF l < 0 THEN 0 - 1 ELSE l + 1

RhsCodes ==
  {"PLUS_EXPR", "POINTER_PLUS_EXPR", "MINUS_EXPR", "BIT_AND_EXPR",
   "BIT_IOR_EXPR", "BIT_XOR_EXPR", "MULT_EXPR"}

\* commutative_tree_code, on the codes of the model.
commutative_tree_code(code) ==
  code \in {"PLUS_EXPR", "BIT_AND_EXPR", "BIT_IOR_EXPR", "BIT_XOR_EXPR",
            "MULT_EXPR"}

\* The switch on TREE_CODE (rhs): the codes that have a fetch-op builtin.
FetchOpCode(code) ==
  code \in {"PLUS_EXPR", "POINTER_PLUS_EXPR", "MINUS_EXPR", "BIT_AND_EXPR",
            "BIT_IOR_EXPR", "BIT_XOR_EXPR"}

\* An atomic region as expand_omp_atomic finds it.
\*   type_class: INTEGRAL_TYPE_P, POINTER_TYPE_P or neither (a float)
\*   size, align: TYPE_SIZE_UNIT and TYPE_ALIGN_UNIT of the type
\*   adjacent: store_bb == single_succ (load_bb)
\*   first_is_modify: the first statement of store_bb after the labels is a
\*     GIMPLE_MODIFY_STMT; next_is_store: the one after it is the
\*     OMP_ATOMIC_STORE; lhs_is_stored_val: it assigns stored_val
\*   rhs_code: the code of its right-hand side; tmp_at: which operand of the
\*     rhs is loaded_val (0, 1, or 2 for neither)
\*   have_fetch_op: the target's optab has the fetch-op insn for the mode
\*   have_cas: sync_compare_and_swap has an insn for the mode
AtomicStmts(classes, sizes, aligns, codes) ==
  [type_class : classes, size : sizes, align : aligns,
   adjacent : BOOLEAN, first_is_modify : BOOLEAN, next_is_store : BOOLEAN,
   lhs_is_stored_val : BOOLEAN, rhs_code : codes, tmp_at : 0 .. 2,
   have_fetch_op : BOOLEAN, have_cas : BOOLEAN]

\* The statements a CFG can hold: a block that does not follow load_bb
\* directly is not looked at, and the pair always ends with the store.
WellFormedAtomic(st) ==
  /\ st.size >= 1 /\ st.align >= 1
  /\ (st.rhs_code = "POINTER_PLUS_EXPR") <=> (st.type_class = "pointer")
  /\ (st.type_class = "pointer") => st.size \in {4, 8}
  /\ (st.type_class = "float") =>
       st.rhs_code \in {"PLUS_EXPR", "MINUS_EXPR", "MULT_EXPR"}

\* The fetch-op test without the commutativity check on a reversed rhs.
fetch_op_any_order(st) ==
  /\ st.first_is_modify
  /\ st.next_is_store
  /\ st.lhs_is_stored_val
  /\ FetchOpCode(st.rhs_code)
  /\ st.tmp_at \in {0, 1}
  /\ st.have_fetch_op

\* Returns TRUE when the fetch-op builtin was emitted.
expand_omp_atomic_fetch_op(st) ==
  /\ st.first_is_modify
  /\ st.next_is_store
  /\ st.lhs_is_stored_val
  /\ FetchOpCode(st.rhs_code)
  /\ \/ st.tmp_at = 0
     \/ commutative_tree_code(st.rhs_code) /\ st.tmp_at = 1
  /\ st.have_fetch_op

\* Returns TRUE when the compare-and-swap loop was emitted.
expand_omp_atomic_pipeline(st) == st.have_cas

\* The calls expand_omp_atomic_mutex places around the load and the store.
MutexCalls == <<"GOMP_atomic_start", "GOMP_atomic_end">>

expand_omp_atomic_result(st) ==
  LET index == exact_log2(st.size)
  IN IF index >= 0 /\ index <= 4 /\ exact_log2(st.align) >= index
       THEN IF /\ st.type_class \in {"integral", "pointer"}
               /\ st.adjacent
               /\ expand_omp_atomic_fetch_op(st)
              THEN [strategy |-> "fetch_op", calls |-> <<"__sync_fetch_and_op">>]
              ELSE IF expand_omp_atomic_pipeline(st)
                     THEN [strategy |-> "pipeline",
                           calls |-> <<"__sync_val_compare_and_swap">>]
                     ELSE [strategy |-> "mutex", calls |-> MutexCalls]
       ELSE [strategy |-> "mutex", calls |-> MutexCalls]

\* expand_omp_atomic: the whole compile-time step.
expand_omp_atomic ==
  /\ atomic_stmt # <<>>
  /\ atomic_emitted.strategy = "none"
  /\ atomic_emitted' = expand_omp_atomic_result(atomic_stmt)
  /\ UNCHANGED <<atomic_stmt, mem, operand, apc, aloc, applied>>
  /\ UNCHANGED OtherThanAtomic

(***************************************************************************)
(* Specification: expand_omp_atomic applied to one atomic region.          *)
(***************************************************************************)
TypeClasses == {"integral", "pointer", "float"}
\* TYPE_SIZE_UNIT and TYPE_ALIGN_UNIT of the types of the model, in bytes.
TypeSizes == {1, 2, 3, 4, 8, 16, 32}
TypeAligns == {1, 2, 4, 8, 16}

InitAtomicExpand ==
  /\ atomic_stmt \in
       {st \in AtomicStmts(TypeClasses, TypeSizes, TypeAligns, RhsCodes) :
          WellFormedAtomic(st)}
  /\ atomic_emitted = AtomicNotExpanded
  /\ mem = 0 /\ operand = <<>> /\ apc = <<>> /\ aloc = <<>>
  /\ applied = [initial |-> 0, order |-> <<>>]
  /\ IdleButAtomic

NextAtomicExpand == expand_omp_atomic

SpecAtomicExpand == InitAtomicExpand /\ [][NextAtomicExpand]_vars

\* "The stored value is computed as tmp OP expr, or as expr OP tmp with OP
\* commutative, OP one of +, -, &, |, ^ or pointer-add": the store block
\* follows the load, and is that one assignment and the store.
FetchOpForm(st) ==
  /\ st.adjacent /\ st.first_is_modify /\ st.next_is_store
  /\ st.lhs_is_stored_val
  /\ st.rhs_code \in {"PLUS_EXPR", "MINUS_EXPR", "BIT_AND_EXPR",
                      "BIT_IOR_EXPR", "BIT_XOR_EXPR", "POINTER_PLUS_EXPR"}
  /\ \/ st.tmp_at = 0
     \/ st.tmp_at = 1 /\ st.rhs_code \in {"PLUS_EXPR", "BIT_AND_EXPR",
                                          "BIT_IOR_EXPR", "BIT_XOR_EXPR"}

\* The size is one the builtins exist for: 1, 2, 4, 8 or 16 bytes.
SizeSupported(st) == st.size \in {1, 2, 4, 8, 16}

\* The alignment of the type is at least its size.
AlignSufficient(st) == st.align >= st.size

AtomicExpanded == atomic_emitted.strategy # "none"

\* C4 as claimed: the fetch-op builtin is emitted if and only if the stored
\* value has the form tmp OP expr (or expr OP tmp, OP commutative) with a
\* supported OP and the alignment is sufficient for the size; in every other
\* case the compare-and-swap loop, and the mutex bracket only when the
\* compare-and-swap loop cannot be used.
C4_TieringAsClaimed ==
  AtomicExpanded =>
    /\ (atomic_emitted.strategy = "fetch_op")
         <=> (FetchOpForm(atomic_stmt) /\ AlignSufficient(atomic_stmt))
    /\ (atomic_emitted.strategy = "mutex")
         => ~(SizeSupported(atomic_stmt) /\ AlignSufficient(atomic_stmt)
              /\ atomic_stmt.have_cas)

\* C4 amended: the fetch-op builtin is emitted if and only if the size is
\* 1, 2, 4, 8 or 16 bytes, the alignment is at least the size, the type is
\* integral or a pointer, the stored value has the fetch-op form, and the
\* target has the fetch-op instruction for the mode; failing that, the
\* compare-and-swap loop is emitted if and only if size and alignment are as
\* above and the target has a compare-and-swap instruction for the mode; in
\* every other case the GOMP_atomic_start/GOMP_atomic_end bracket is.
C4_Tiering ==
  AtomicExpanded =>
    LET st == atomic_stmt
        fetch == /\ SizeSupported(st) /\ AlignSufficient(st)
                 /\ st.type_class \in {"integral", "pointer"}
                 /\ FetchOpForm(st)
                 /\ st.have_fetch_op
        cas == /\ ~fetch
               /\ SizeSupported(st) /\ AlignSufficient(st)
               /\ st.have_cas
    IN /\ (atomic_emitted.strategy = "fetch_op") <=> fetch
       /\ (atomic_emitted.strategy = "pipeline") <=> cas
       /\ (atomic_emitted.strategy = "mutex") <=> (~fetch /\ ~cas)
       /\ ("GOMP_atomic_start" \in {atomic_emitted.calls[i] :
                                      i \in DOMAIN atomic_emitted.calls})
            <=> (~fetch /\ ~cas)

\* A float updated as tmp + expr, aligned: the compare-and-swap loop.
C4_Witness ==
  /\ atomic_emitted.strategy = "pipeline"
  /\ atomic_stmt.type_class = "float"
  /\ FetchOpForm(atomic_stmt) /\ AlignSufficient(atomic_stmt)
  /\ atomic_stmt.have_fetch_op

(***************************************************************************)
(* The compare-and-swap loop expand_omp_atomic_pipeline emits, run by      *)
(* thread tid.  Memory holds the bits of the value.                        *)
(***************************************************************************)
AtomMod == Pow2(AtomBits)
AtomValues == 0 .. AtomMod - 1

\* VIEW_CONVERT_EXPR between the type and the integer of the same size: the
\* same bits read as a value of the other type.  For an integral or pointer
\* type the builder uses the variables themselves (iaddr == addr).
ValueOfBits(st, b) ==
  IF st.type_class = "float" THEN (b * 3 + 1) % AtomMod ELSE b

BitsOfValue(st, v) ==
  IF st.type_class = "float"
    THEN CHOOSE b \in AtomValues : (b * 3 + 1) % AtomMod = v
    ELSE v

\* The statements between the load and the store: stored_val from
\* loaded_val and the other operand c.
AtomicRhs(st, loaded_val, c) ==
  CASE st.rhs_code = "PLUS_EXPR" -> (loaded_val + c) % AtomMod
    [] st.rhs_code = "MULT_EXPR" -> (loaded_val * c) % AtomMod
    [] st.rhs_code = "MINUS_EXPR" ->
         IF st.tmp_at = 0 THEN (loaded_val - c) % AtomMod
         ELSE (c - loaded_val) % AtomMod

\* A compare-and-swap that stores without comparing.
CompareAndSwapBlind(m, oldval, newval) == [mem |-> newval, ret |-> m]

\* __sync_val_compare_and_swap (addr, oldval, newval): what it leaves at
\* addr and what it returns.
CompareAndSwap(m, oldval, newval) ==
  [mem |-> IF m = oldval THEN newval ELSE m, ret |-> m]

\* The loop's exit test with the comparison the header comment shows
\* ("if (oldval != newval) goto repeat", oldval being the value returned).
PipelineRetryAsCommented(new_storedi, old_vali, storedi) ==
  new_storedi # storedi

\* The condition built for the back edge: NE_EXPR (new_storedi, old_vali).
PipelineRetry(new_storedi, old_vali, storedi) == new_storedi # old_vali

AThreads == DOMAIN operand

AlocInit ==
  [loadedi |-> 0, loaded_val |-> 0, stored_val |-> 0, storedi |-> 0,
   new_storedi |-> 0, old_vali |-> 0, cas_calls |-> 0]

\* k threads reach the atomic region st with *addr = m; ops[tid] is the
\* value of the other operand in thread tid.
AtomicStart(st, m, ops) ==
  /\ atomic_stmt = st
  /\ atomic_emitted = AtomicNotExpanded
  /\ mem = m
  /\ operand = ops
  /\ apc = [t \in DOMAIN ops |-> "load_bb"]
  /\ aloc = [t \in DOMAIN ops |-> AlocInit]
  /\ applied = [initial |-> m, order |-> <<>>]

\* "Load the initial value, replacing the OMP_ATOMIC_LOAD", and move it to
\* loadedi.
pipeline_load_bb(tid) ==
  /\ atomic_emitted.strategy = "pipeline"
  /\ apc[tid] = "load_bb"
  /\ aloc' = [aloc EXCEPT ![tid].loadedi = mem]
  /\ apc' = [apc EXCEPT ![tid] = "loop_header"]
  /\ UNCHANGED <<atomic_stmt, atomic_emitted, mem, operand, applied>>
  /\ UNCHANGED OtherThanAtomic

\* loaded_val from loadedi, the statements of the update, and storedi from
\* stored_val.
pipeline_loop_header(tid) ==
  /\ atomic_emitted.strategy = "pipeline"
  /\ apc[tid] = "loop_header"
  /\ LET loaded_val == ValueOfBits(atomic_stmt, aloc[tid].loadedi)
         stored_val == AtomicRhs(atomic_stmt, loaded_val, operand[tid])
     IN aloc' = [aloc EXCEPT ![tid].loaded_val = loaded_val,
                             ![tid].stored_val = stored_val,
                             ![tid].storedi =
                                BitsOfValue(atomic_stmt, stored_val)]
  /\ apc' = [apc EXCEPT ![tid] = "store_bb"]
  /\ UNCHANGED <<atomic_stmt, atomic_emitted, mem, operand, applied>>
  /\ UNCHANGED OtherThanAtomic

\* The compare-and-swap, old_vali = loadedi, loadedi = new_storedi, and the
\* branch back to the loop header.
pipeline_store_bb(tid) ==
  /\ atomic_emitted.strategy = "pipeline"
  /\ apc[tid] = "store_bb"
  /\ LET cas == CompareAndSwap(mem, aloc[tid].loadedi, aloc[tid].storedi)
         new_storedi == cas.ret
         old_vali == aloc[tid].loadedi
     IN /\ mem' = cas.mem
        /\ aloc' = [aloc EXCEPT ![tid].new_storedi = new_storedi,
                                ![tid].old_vali = old_vali,
                                ![tid].loadedi = new_storedi,
                                ![tid].cas_calls = @ + 1]
        /\ applied' = IF mem = aloc[tid].loadedi
                        THEN [applied EXCEPT !.order = Append(@, tid)]
                        ELSE applied
        /\ apc' = [apc EXCEPT ![tid] =
                     IF PipelineRetry(new_storedi, old_vali, aloc[tid].storedi)
                       THEN "loop_header" ELSE "done"]
  /\ UNCHANGED <<atomic_stmt, atomic_emitted, operand>>
  /\ UNCHANGED OtherThanAtomic

(***************************************************************************)
(* Specification: k threads run the compare-and-swap loop on one address.  *)
(***************************************************************************)
PipelineStmts ==
  {st \in AtomicStmts({"integral", "float"}, {4}, {4},
                      {"PLUS_EXPR", "MINUS_EXPR", "MULT_EXPR"}) :
     /\ st.adjacent /\ st.first_is_modify /\ st.next_is_store
     /\ st.lhs_is_stored_val /\ st.tmp_at \in {0, 1}
     /\ st.have_cas /\ ~st.have_fetch_op}

InitPipeline ==
  /\ \E st \in PipelineStmts, m \in AtomValues, k \in 2 .. MaxThreads :
       \E ops \in [0 .. k - 1 -> 1 .. MaxOperand] : AtomicStart(st, m, ops)
  /\ IdleButAtomic

NextPipeline ==
  \/ expand_omp_atomic
  \/ \E tid \in AThreads : pipeline_load_bb(tid)
  \/ \E tid \in AThreads : pipeline_loop_header(tid)
  \/ \E tid \in AThreads : pipeline_store_bb(tid)

SpecPipeline == InitPipeline /\ [][NextPipeline]_vars

\* The updates of the threads of order, applied one after the other to the
\* bits b.
RECURSIVE ApplySerially(_, _)
ApplySerially(b, order) ==
  IF order = <<>> THEN b
  ELSE ApplySerially(
         BitsOfValue(atomic_stmt,
                     AtomicRhs(atomic_stmt, ValueOfBits(atomic_stmt, b),
                               operand[Head(order)])),
         Tail(order))

Occurrences(order, t) == Cardinality({i \in DOMAIN order : order[i] = t})

AnyLoops ==
  {f \in ForStmts({0}, {3}, {1}) : ConformingFor(f)}

InitExpandFor ==
  /\ \E f \in AnyLoops, reg \in Regions(BOOLEAN, BOOLEAN) :
       /\ f.nowait => reg.nowait
       /\ CombinableFor(f, reg)
       /\ LoopStart(f, reg, 1)
  /\ IdleButLoop

NextExpandFor == expand_omp_for

SpecExpandFor == InitExpandFor /\ [][NextExpandFor]_vars

CallsOf(fns) == SelectSeq(emitted.calls, LAMBDA c : c.fn \in fns)

LoopRuntimeCalls ==
  CallsOf({"GOMP_loop_start", "GOMP_loop_next", "GOMP_loop_end",
           "GOMP_loop_end_nowait"})

FnIndex == SchedIndex(fd.sched_kind) + (IF fd.have_ordered THEN 4 ELSE 0)

\* C5 as claimed: a loop with static schedule, no chunk and no ordered
\* clause gets no GOMP_loop_* call; every other loop gets exactly one
\* GOMP_loop_<sched>_start and exactly one GOMP_loop_<sched>_next, the
\* latter in the continuation block.
C5_ScheduleSelectionAsClaimed ==
  emitted.shape # "none" =>
    IF /\ fd.sched_kind = "OMP_CLAUSE_SCHEDULE_STATIC"
       /\ fd.chunk_size = NULL_TREE
       /\ ~fd.have_ordered
      THEN LoopRuntimeCalls = <<>>
      ELSE /\ Len(CallsOf({"GOMP_loop_start"})) = 1
           /\ Len(CallsOf({"GOMP_loop_next"})) = 1
           /\ CallsOf({"GOMP_loop_next"})[1].bb = "l2_bb"

\* C5: a loop with static schedule and no ordered clause whose region has a
\* continue block gets no GOMP_loop_* call, with or without a chunk.  Every
\* other loop gets one dispatch call of its schedule in the entry block,
\* GOMP_loop_<sched>_start, or GOMP_loop_<sched>_next when the loop is
\* combined with its parallel, and one GOMP_loop_<sched>_next in the
\* continuation block if the region has a continue block, none there
\* otherwise; no other start or next call is emitted.
C5_ScheduleSelection ==
  emitted.shape # "none" =>
    IF /\ fd.sched_kind = "OMP_CLAUSE_SCHEDULE_STATIC"
       /\ ~fd.have_ordered
       /\ region.cont
      THEN LoopRuntimeCalls = <<>>
      ELSE LET dispatch == CallsOf({"GOMP_loop_start", "GOMP_loop_next"})
               InBlock(bb) == SelectSeq(dispatch, LAMBDA c : c.bb = bb)
           IN /\ \A i \in DOMAIN dispatch : dispatch[i].ix = FnIndex
              /\ Len(InBlock("entry_bb")) = 1
              /\ InBlock("entry_bb")[1].fn =
                   (IF region.is_combined_parallel
                      THEN "GOMP_loop_next" ELSE "GOMP_loop_start")
              /\ Len(InBlock("l2_bb")) = (IF region.cont THEN 1 ELSE 0)
              /\ \A i \in DOMAIN InBlock("l2_bb") :
                   InBlock("l2_bb")[i].fn = "GOMP_loop_next"
              /\ Len(dispatch) = Len(InBlock("entry_bb")) + Len(InBlock("l2_bb"))

\* A static loop with the ordered clause went to the generic expansion and
\* got its start and next calls.
C5_Witness ==
  /\ emitted.shape = "generic"
  /\ fd.sched_kind = "OMP_CLAUSE_SCHEDULE_STATIC"
  /\ fd.have_ordered
  /\ region.cont
  /\ Len(CallsOf({"GOMP_loop_start"})) = 1
  /\ Len(CallsOf({"GOMP_loop_next"})) = 1

(***************************************************************************)
(* The code expand_omp_for_generic emits, run by thread tid.  The runtime  *)
(* library is a black box: a dispatch call returns false, or true with a   *)
(* non-empty range of the iteration space in *istart0 and *iend0.          *)
(***************************************************************************)
\* The values of V of the loop fd describes.
SrcIterationsOfFd ==
  SrcIterations([n1 |-> fd.n1, n2 |-> fd.n2, cond |-> fd.cond_code,
                 incr |-> "PLUS_EXPR", s |-> fd.step], fd.n1)

\* What a call of GOMP_loop_<sched>_start or _next can answer when the
\* thread has had k ranges: iterations a .. b-1 of the loop's count, the
\* end of the last one being N2 itself or the value V stops at.
DispatchAnswers(f, count, k) ==
  {[more |-> FALSE, istart0 |-> 0, iend0 |-> 0]}
    \cup
  {[more |-> TRUE, istart0 |-> f.n1 + a * f.step, iend0 |-> e] :
     <<a, e>> \in
       {<<a, f.n1 + b * f.step>> :
          <<a, b>> \in {ab \in (0 .. count) \X (0 .. count) :
                          k < MaxRanges /\ ab[1] < ab[2]}}
         \cup
       {<<a, f.n2>> : a \in {a \in 0 .. (count - 1) : k < MaxRanges}}}

Event(call, ans) ==
  [call |-> call, more |-> ans.more, istart0 |-> ans.istart0,
   iend0 |-> ans.iend0]

\* The call emitted in block bb.
CallIn(bb) == SelectSeq(emitted.calls, LAMBDA c : c.bb = bb)[1]

RangesSoFar(tid) ==
  Len(SelectSeq(trace[tid], LAMBDA ev : ev.more))

\* A dispatch call of thread tid: the runtime writes *istart0 and *iend0
\* when it returns true.
Dispatch(tid, bb, to_l0, to_l3) ==
  \E ans \in DispatchAnswers(fd, Len(SrcIterationsOfFd), RangesSoFar(tid)) :
    /\ trace' = [trace EXCEPT ![tid] = Append(@, Event(CallIn(bb), ans))]
    /\ loc' = IF ans.more
                THEN [loc EXCEPT ![tid].more = TRUE,
                                 ![tid].istart0 = ans.istart0,
                                 ![tid].iend0 = ans.iend0]
                ELSE [loc EXCEPT ![tid].more = FALSE]
    /\ pc' = [pc EXCEPT ![tid] = IF ans.more THEN to_l0 ELSE to_l3]

\* more = GOMP_loop_foo_start (...); if (more) goto L0; else goto L3;
generic_entry_bb(tid) ==
  /\ emitted.shape = "generic"
  /\ Alone(tid)
  /\ pc[tid] = "entry_bb"
  /\ Dispatch(tid, "entry_bb", "l0_bb", "exit_bb")
  /\ UNCHANGED <<fd, region, nthreads, emitted, ran>>
  /\ UNCHANGED OtherThanLoop

\* L0: V = istart0; iend = iend0;
generic_l0_bb(tid) ==
  /\ emitted.shape = "generic"
  /\ Alone(tid)
  /\ pc[tid] = "l0_bb"
  /\ loc' = [loc EXCEPT ![tid].V = Wrap(loc[tid].istart0),
                        ![tid].Vdef = TRUE,
                        ![tid].iend = Wrap(loc[tid].iend0)]
  /\ pc' = [pc EXCEPT ![tid] = "l1_bb"]
  /\ UNCHANGED <<fd, region, nthreads, emitted, ran, trace>>
  /\ UNCHANGED OtherThanLoop

\* The test on the back edge of the sequential loop as "V cond= iend".
GenericAgainInclusive(f, v, iend) ==
  v = iend \/ CondHolds(f.cond_code, v, iend)

\* if (V cond iend) goto L1; else goto L2;
GenericAgain(f, v, iend) == CondHolds(f.cond_code, v, iend)

\* L1: BODY; V += STEP; and the test.  Without a continue block BODY never
\* gets to its end.
generic_l1_bb(tid) ==
  /\ emitted.shape = "generic"
  /\ Alone(tid)
  /\ pc[tid] = "l1_bb"
  /\ RunBody(tid)
  /\ IF region.cont
       THEN LET vback == PLUS_EXPR(loc[tid].V, fd.step)
            IN /\ loc' = [loc EXCEPT ![tid].V = vback]
               /\ pc' = [pc EXCEPT ![tid] =
                           IF GenericAgain(fd, vback, loc[tid].iend)
                             THEN "l1_bb" ELSE "l2_bb"]
       ELSE /\ loc' = loc
            /\ pc' = [pc EXCEPT ![tid] = "noreturn"]
  /\ UNCHANGED <<fd, region, nthreads, emitted, trace>>
  /\ UNCHANGED OtherThanLoop

\* L2: if (GOMP_loop_foo_next (&istart0, &iend0)) goto L0; else goto L3;
generic_l2_bb(tid) ==
  /\ emitted.shape = "generic"
  /\ Alone(tid)
  /\ pc[tid] = "l2_bb"
  /\ Dispatch(tid, "l2_bb", "l0_bb", "exit_bb")
  /\ UNCHANGED <<fd, region, nthreads, emitted, ran>>
  /\ UNCHANGED OtherThanLoop

\* L3: GOMP_loop_end or GOMP_loop_end_nowait in place of the OMP_RETURN.
generic_exit_bb(tid) ==
  /\ emitted.shape = "generic"
  /\ Alone(tid)
  /\ pc[tid] = "exit_bb"
  /\ trace' = [trace EXCEPT ![tid] =
                 Append(@, Event(CallIn("exit_bb"),
                                 [more |-> FALSE, istart0 |-> 0,
                                  iend0 |-> 0]))]
  /\ pc' = [pc EXCEPT ![tid] = "done"]
  /\ UNCHANGED <<fd, region, nthreads, emitted, loc, ran>>
  /\ UNCHANGED OtherThanLoop

(***************************************************************************)
(* Specification: a loop expanded by expand_omp_for_generic and run by a   *)
(* team.                                                                   *)
(***************************************************************************)
GenericN2Range == (0 - 2) .. 3
GenericTeams == 1 .. 2

GenericLoops ==
  {f \in ForStmts({0}, GenericN2Range, StepRange) :
     /\ ConformingFor(f)
     /\ f.cond \in {"LT_EXPR", "GT_EXPR"}
     /\ ~f.nowait
     /\ f.chunk \in {NULL_TREE, <<2>>}
     /\ \/ f.sched = "OMP_CLAUSE_SCHEDULE_DYNAMIC" /\ ~f.ordered
        \/ f.sched = "OMP_CLAUSE_SCHEDULE_STATIC" /\ f.ordered}

InitGeneric ==
  /\ \E f \in GenericLoops, reg \in Regions(BOOLEAN, BOOLEAN),
        nt \in GenericTeams :
       /\ f.nowait => reg.nowait
       /\ CombinableFor(f, reg)
       /\ LoopStart(f, reg, nt)
  /\ IdleButLoop

NextGeneric ==
  \/ expand_omp_for
  \/ \E tid \in Threads : generic_entry_bb(tid)
  \/ \E tid \in Threads : generic_l0_bb(tid)
  \/ \E tid \in Threads : generic_l1_bb(tid)
  \/ \E tid \in Threads : generic_l2_bb(tid)
  \/ \E tid \in Threads : generic_exit_bb(tid)

SpecGeneric == InitGeneric /\ [][NextGeneric]_vars

IsDispatch(ev) == ev.call.fn \in {"GOMP_loop_start", "GOMP_loop_next"}

\* V is one of istart, istart + STEP, ... for which V cond iend holds.
InRange(v, istart, iend, f) ==
  /\ CondHolds(f.cond_code, v, iend)
  /\ \E k \in 0 .. TypeMod : v = istart + k * f.step

\* C6: in the code emitted by expand_omp_for_generic for a loop that is not
\* combined with its parallel and has a continue block, the first call of a
\* thread is GOMP_loop_<sched>_start and it is the only start call; after a
\* dispatch call that returned true the thread runs the body for V =
\* istart0, istart0 + STEP, ... while V cond iend0, with the bounds that
\* call wrote, and then calls GOMP_loop_<sched>_next; the body is run for
\* no V outside the ranges returned; after the first dispatch call that
\* returned false the thread runs no body and its only further call is
\* GOMP_loop_end, or GOMP_loop_end_nowait if the return marker is flagged
\* nowait, made exactly once.
C6_GenericDispatch ==
  (emitted.shape = "generic" /\ ~region.is_combined_parallel /\ region.cont)
  => \A t \in Threads :
       LET tr == trace[t]
           last == tr[Len(tr)]
           end_fn == IF region.nowait THEN "GOMP_loop_end_nowait"
                     ELSE "GOMP_loop_end"
       IN /\ (pc[t] = "entry_bb") = (tr = <<>>)
          /\ \A i \in DOMAIN tr :
               /\ (tr[i].call.fn = "GOMP_loop_start") = (i = 1)
               /\ tr[i].call.fn \in {"GOMP_loop_start", "GOMP_loop_next"}
                    => tr[i].call.ix = FnIndex
               /\ (i > 1 /\ tr[i - 1].more) => tr[i].call.fn = "GOMP_loop_next"
               /\ (i > 1 /\ ~tr[i - 1].more) =>
                    /\ tr[i].call.fn = end_fn
                    /\ i = Len(tr)
                    /\ IsDispatch(tr[i - 1])
          /\ pc[t] \in {"l0_bb", "l1_bb", "l2_bb"} =>
               IsDispatch(last) /\ last.more
          /\ pc[t] = "l1_bb" =>
               /\ InRange(loc[t].V, last.istart0, last.iend0, fd)
               /\ \A v \in TypeRange :
                    (InRange(v, last.istart0, last.iend0, fd)
                     /\ CondHolds(fd.cond_code, v, loc[t].V))
                      => ran[t][v] >= 1
          /\ pc[t] = "l2_bb" =>
               /\ ~CondHolds(fd.cond_code, loc[t].V, last.iend0)
               /\ \A v \in TypeRange :
                    InRange(v, last.istart0, last.iend0, fd) => ran[t][v] >= 1
          /\ pc[t] = "exit_bb" => IsDispatch(last) /\ ~last.more
          /\ pc[t] = "done" => last.call.fn = end_fn
          /\ \A v \in TypeRange :
               ran[t][v] >= 1 =>
                 \E i \in DOMAIN tr :
                   /\ IsDispatch(tr[i]) /\ tr[i].more
                   /\ InRange(v, tr[i].istart0, tr[i].iend0, fd)

\* A thread got two ranges, from the start call and from a next call, ran
\* bodies, was told false and has called GOMP_loop_end_nowait.
C6_Witness ==
  /\ emitted.shape = "generic" /\ ~region.is_combined_parallel /\ region.cont
  /\ region.nowait
  /\ \E t \in Threads :
       /\ pc[t] = "done"
       /\ Len(trace[t]) = 4
       /\ trace[t][1].more /\ trace[t][2].more
       /\ trace[t][4].call.fn = "GOMP_loop_end_nowait"
       /\ \E v \in TypeRange : ran[t][v] >= 1

(***************************************************************************)
(* remove_exit_barriers and expand_omp_single on one parallel region.      *)
(***************************************************************************)
\* The statements of a basic block before its last one: labels come first.
BlockPrefixes ==
  {<<>>, <<"LABEL_EXPR">>, <<"LABEL_EXPR", "LABEL_EXPR">>,
   <<"GIMPLE_MODIFY_STMT">>, <<"LABEL_EXPR", "GIMPLE_MODIFY_STMT">>}

\* region->exit of the parallel: absent when the region does not return.
ParExits ==
  {[present |-> FALSE, before |-> <<>>]}
    \cup {[present |-> TRUE, before |-> b] : b \in BlockPrefixes}

\* A work-sharing region inside the parallel.
\*   clause_nowait: it has the nowait clause
\*   copyprivate:   it has a copyprivate clause (single only)
\*   return_nowait: OMP_RETURN_NOWAIT of its OMP_RETURN
\*   direct:        the block ending in its OMP_RETURN is a predecessor of
\*                  the parallel's exit block
\*   via:           otherwise, the statements of the blocks in between
\*   expanded, barrier: the region was expanded; GOMP_barrier was emitted
WsRegions ==
  {r \in [type : {"OMP_FOR", "OMP_SECTIONS", "OMP_SINGLE"},
          clause_nowait : BOOLEAN, copyprivate : BOOLEAN,
          return_nowait : BOOLEAN, direct : BOOLEAN,
          via : {<<>>, <<"LABEL_EXPR">>, <<"GIMPLE_MODIFY_STMT">>,
                 <<"OMP_RETURN">>},
          expanded : {FALSE}, barrier : {FALSE}] :
     /\ r.copyprivate => r.type = "OMP_SINGLE"
     /\ r.direct => r.via = <<>>
     \* lower_omp_for, lower_omp_sections, lower_omp_single
     /\ r.return_nowait = r.clause_nowait}

\* The test on the statement before the parallel's OMP_RETURN, left out.
ExitBarrierRemovableAlways(before) == TRUE

\* bsi_prev from the parallel's OMP_RETURN: nothing, or a label.
ExitBarrierRemovable(before) ==
  before = <<>> \/ before[Len(before)] = "LABEL_EXPR"

remove_exit_barrier(exit, regions) ==
  IF ~exit.present THEN regions
  ELSE IF ~ExitBarrierRemovable(exit.before) THEN regions
  ELSE [r \in DOMAIN regions |->
          IF regions[r].direct
            THEN [regions[r] EXCEPT !.return_nowait = TRUE]
            ELSE regions[r]]

\* remove_exit_barriers on the tree of the one parallel region.
remove_exit_barriers ==
  /\ barrier_phase = "built"
  /\ ws_regions' = remove_exit_barrier(par_exit, ws_regions)
  /\ barrier_phase' = "barriers_removed"
  /\ UNCHANGED par_exit
  /\ UNCHANGED OtherThanBarrier

\* need_barrier without the look at the copyprivate clause.
SingleBarrierNoCopyprivate(r) == ~r.return_nowait

\* !OMP_RETURN_NOWAIT (...) || need_barrier
SingleBarrier(r) == ~r.return_nowait \/ r.copyprivate

expand_omp_single(r) ==
  /\ barrier_phase = "barriers_removed"
  /\ ws_regions[r].type = "OMP_SINGLE"
  /\ ~ws_regions[r].expanded
  /\ ws_regions' = [ws_regions EXCEPT
                      ![r].expanded = TRUE,
                      ![r].barrier = SingleBarrier(ws_regions[r])]
  /\ UNCHANGED <<par_exit, barrier_phase>>
  /\ UNCHANGED OtherThanBarrier

InitBarrier ==
  /\ par_exit \in ParExits
  /\ ws_regions \in [1 .. MaxRegions -> WsRegions]
  /\ ~par_exit.present => \A r \in 1 .. MaxRegions : ~ws_regions[r].direct
  /\ barrier_phase = "built"
  /\ IdleButBarrier

NextBarrier ==
  \/ remove_exit_barriers
  \/ \E r \in DOMAIN ws_regions : expand_omp_single(r)

SpecBarrier == InitBarrier /\ [][NextBarrier]_vars

\* The statements between the OMP_RETURN of region r and the OMP_RETURN of
\* the parallel.
Between(r) == ws_regions[r].via \o par_exit.before

OnlyLabels(stmts) == \A i \in DOMAIN stmts : stmts[i] = "LABEL_EXPR"

\* C7: the return marker of a work-sharing region carries a nowait flag it
\* did not get from its clauses only if the parallel region has an exit and
\* every statement between that marker and the return marker of the
\* parallel is a label; with any other statement in between the marker
\* keeps the value it got from the clauses.
C7_ExitBarrier ==
  \A r \in DOMAIN ws_regions :
    /\ ws_regions[r].return_nowait # ws_regions[r].clause_nowait =>
         /\ barrier_phase = "barriers_removed"
         /\ ws_regions[r].return_nowait
         /\ par_exit.present
         /\ OnlyLabels(Between(r))
    /\ ~OnlyLabels(Between(r)) =>
         ws_regions[r].return_nowait = ws_regions[r].clause_nowait

\* remove_exit_barriers flagged the marker of a region without the nowait
\* clause across a label, and left the marker of another region, separated
\* by an assignment, as it was.
C7_Witness ==
  /\ barrier_phase = "barriers_removed"
  /\ par_exit.present /\ par_exit.before = <<"LABEL_EXPR">>
  /\ \E r, q \in DOMAIN ws_regions :
       /\ ~ws_regions[r].clause_nowait /\ ws_regions[r].return_nowait
       /\ ~ws_regions[q].clause_nowait /\ ~ws_regions[q].return_nowait
       /\ ws_regions[q].via = <<"GIMPLE_MODIFY_STMT">>

\* C8: an expanded single region with a copyprivate clause has GOMP_barrier
\* at its exit whatever the nowait flag of its return marker; an expanded
\* single region without copyprivate has it if and only if the flag is not
\* set.
C8_SingleBarrier ==
  \A r \in DOMAIN ws_regions :
    (ws_regions[r].type = "OMP_SINGLE" /\ ws_regions[r].expanded) =>
      IF ws_regions[r].copyprivate
        THEN ws_regions[r].barrier
        ELSE ws_regions[r].barrier = ~ws_regions[r].return_nowait

\* A single with copyprivate and no nowait clause whose marker was flagged
\* by remove_exit_barriers kept its barrier.
C8_Witness ==
  \E r \in DOMAIN ws_regions :
    /\ ws_regions[r].type = "OMP_SINGLE" /\ ws_regions[r].expanded
    /\ ws_regions[r].copyprivate
    /\ ~ws_regions[r].clause_nowait /\ ws_regions[r].return_nowait
    /\ ws_regions[r].barrier

(***************************************************************************)
(* diagnose_omp_structured_block_errors on the labels and branches of a    *)
(* function.  The structured constructs of the function form a tree;       *)
(* construct 0 stands for "in no construct" (a NULL context).              *)
(***************************************************************************)
\* The construct around each construct: 1 and 5 are outermost, 2 and 3 lie
\* in 1, 4 lies in 2.
OuterConstruct == <<0, 1, 1, 2, 0>>

Constructs == DOMAIN OuterConstruct

\* The context pass 1 has at a point inside construct c: the TREE_LIST of
\* the constructs around it, innermost first.
RECURSIVE ContextList(_)
ContextList(c) ==
  IF c = 0 THEN <<>> ELSE <<c>> \o ContextList(OuterConstruct[c])

Labels == 1 .. MaxLabels

\* A branch statement: its code, the construct it lies in, the labels it
\* can go to (none for a return), and the tree now at *stmt_p.
BranchStmts ==
  {[code |-> "GOTO_EXPR", ctx |-> c, labels |-> <<l>>, tree |-> "GOTO_EXPR"] :
     c \in {0} \cup Constructs, l \in Labels}
    \cup
  {[code |-> "RETURN_EXPR", ctx |-> c, labels |-> <<>>,
    tree |-> "RETURN_EXPR"] : c \in {0} \cup Constructs}
    \cup
  {[code |-> "SWITCH_EXPR", ctx |-> c, labels |-> <<l, m>>,
    tree |-> "SWITCH_EXPR"] :
     c \in {0} \cup Constructs, l \in Labels, m \in Labels}

InvalidExit == "invalid exit from OpenMP structured block"
InvalidEntry == "invalid entry to OpenMP structured block"

\* exit_p with the walk over LABEL_CTX only.
ExitPWithoutNullBranch(branch_ctx, label_ctx) ==
  ~\E i \in DOMAIN label_ctx : label_ctx[i] = branch_ctx

\* exit_p of diagnose_sb_0: "We prefer exit unless we can show that
\* LABEL_CTX is nested within BRANCH_CTX."
ExitP(branch_ctx, label_ctx) ==
  IF branch_ctx = 0 THEN FALSE
  ELSE ~\E i \in DOMAIN label_ctx : label_ctx[i] = branch_ctx

\* diagnose_sb_0: the errors it reports (none or one).
diagnose_sb_0(branch_ctx, label_ctx) ==
  IF (IF label_ctx # <<>> THEN label_ctx[1] ELSE 0) = branch_ctx
    THEN <<>>
    ELSE IF ExitP(branch_ctx, label_ctx)
           THEN <<InvalidExit>> ELSE <<InvalidEntry>>

\* Pass 1 over the whole function: every LABEL_EXPR is entered with the
\* context it is found in.
diagnose_sb_1 ==
  /\ sb_next = 0
  /\ sb_labels # <<>>
  /\ all_labels' = [l \in DOMAIN sb_labels |-> ContextList(sb_labels[l])]
  /\ sb_next' = 1
  /\ UNCHANGED <<sb_labels, sb_stmts, sb_errors>>
  /\ UNCHANGED OtherThanDiag

\* The SWITCH_EXPR case: the labels in order, up to the first error.
RECURSIVE SwitchErrors(_, _)
SwitchErrors(branch_ctx, labels) ==
  IF labels = <<>> THEN <<>>
  ELSE LET e == diagnose_sb_0(branch_ctx, all_labels[Head(labels)])
       IN IF e # <<>> THEN e ELSE SwitchErrors(branch_ctx, Tail(labels))

\* Pass 2 at the next branch statement.
diagnose_sb_2 ==
  /\ sb_next >= 1
  /\ sb_next <= Len(sb_stmts)
  /\ LET st == sb_stmts[sb_next]
         errs == CASE st.code = "GOTO_EXPR" ->
                        diagnose_sb_0(st.ctx, all_labels[st.labels[1]])
                   [] st.code = "SWITCH_EXPR" ->
                        SwitchErrors(st.ctx, st.labels)
                   [] st.code = "RETURN_EXPR" ->
                        diagnose_sb_0(st.ctx, <<>>)
     IN /\ sb_errors' = sb_errors \o
                          [i \in DOMAIN errs |->
                             [stmt |-> sb_next, msg |-> errs[i]]]
        /\ sb_stmts' = IF errs # <<>>
                         THEN [sb_stmts EXCEPT ![sb_next].tree = "NOP_EXPR"]
                         ELSE sb_stmts
  /\ sb_next' = sb_next + 1
  /\ UNCHANGED <<sb_labels, all_labels>>
  /\ UNCHANGED OtherThanDiag

InitDiag ==
  /\ sb_labels \in [Labels -> {0} \cup Constructs]
  /\ sb_stmts \in [1 .. MaxBranches -> BranchStmts]
  /\ all_labels = <<>>
  /\ sb_errors = <<>>
  /\ sb_next = 0
  /\ IdleButDiag

NextDiag == diagnose_sb_1 \/ diagnose_sb_2

SpecDiag == InitDiag /\ [][NextDiag]_vars

\* The chains of the claim, innermost construct first.
BranchChain(st) == ContextList(st.ctx)
DestChain(l) == ContextList(sb_labels[l])

\* The destinations of a branch as chains: a return leaves every construct.
DestChains(st) ==
  IF st.code = "RETURN_EXPR" THEN << <<>> >>
  ELSE [i \in DOMAIN st.labels |-> DestChain(st.labels[i])]

\* d is b without some of its innermost constructs (or b itself).
IsOuterPart(d, b) ==
  /\ Len(d) <= Len(b)
  /\ d = SubSeq(b, Len(b) - Len(d) + 1, Len(b))

ErrorsFor(i) == SelectSeq(sb_errors, LAMBDA e : e.stmt = i)

Diagnosed(i) == sb_next > i

\* C9 as claimed: every destination of a branch whose chain differs from the
\* branch's is reported, as "invalid exit" if the destination's chain is
\* the outer part of the branch's chain and as "invalid entry" otherwise,
\* and the branch becomes a no-op; a branch with no such destination is not
\* reported and stays.
C9_DiagnoseAsClaimed ==
  \A i \in DOMAIN sb_stmts :
    Diagnosed(i) =>
      LET st == sb_stmts[i]
          b == BranchChain(st)
          ds == DestChains(st)
          bad == {k \in DOMAIN ds : ds[k] # b}
      IN IF bad = {}
           THEN ErrorsFor(i) = <<>> /\ st.tree = st.code
           ELSE /\ st.tree = "NOP_EXPR"
                /\ \A k \in bad :
                     \E j \in DOMAIN ErrorsFor(i) :
                       ErrorsFor(i)[j].msg =
                         (IF IsOuterPart(ds[k], b)
                            THEN InvalidExit ELSE InvalidEntry)

\* C9: a branch none of whose destinations has another chain than its own
\* is not reported and stays.  Any other branch is reported once, for its
\* first destination with another chain, and becomes a no-op: as "invalid
\* entry" if the branch lies in no construct or the innermost construct
\* around the branch is one of the constructs around that destination, as
\* "invalid exit" in every other case, a destination in another construct
\* that does not enclose the branch included.
C9_Diagnose ==
  \A i \in DOMAIN sb_stmts :
    Diagnosed(i) =>
      LET st == sb_stmts[i]
          b == BranchChain(st)
          ds == DestChains(st)
          bad == {k \in DOMAIN ds : ds[k] # b}
      IN IF bad = {}
           THEN ErrorsFor(i) = <<>> /\ st.tree = st.code
           ELSE LET first == CHOOSE k \in bad : \A m \in bad : k <= m
                    d == ds[first]
                    entry == b = <<>> \/ \E j \in DOMAIN d : d[j] = b[1]
                IN /\ st.tree = "NOP_EXPR"
                   /\ Len(ErrorsFor(i)) = 1
                   /\ ErrorsFor(i)[1].msg =
                        (IF entry THEN InvalidEntry ELSE InvalidExit)

\* A goto from one construct to a label in a construct beside it was
\* reported as an exit, and a goto from outside into a construct as an
\* entry; both became no-ops.
C9_Witness ==
  /\ sb_next > MaxBranches
  /\ \E i, j \in DOMAIN sb_stmts :
       /\ sb_stmts[i].code = "GOTO_EXPR" /\ sb_stmts[i].ctx = 2
       /\ sb_labels[sb_stmts[i].labels[1]] = 3
       /\ sb_stmts[i].tree = "NOP_EXPR"
       /\ ErrorsFor(i) = <<[stmt |-> i, msg |-> InvalidExit]>>
       /\ sb_stmts[j].code = "GOTO_EXPR" /\ sb_stmts[j].ctx = 0
       /\ sb_labels[sb_stmts[j].labels[1]] = 4
       /\ sb_stmts[j].tree = "NOP_EXPR"
       /\ ErrorsFor(j) = <<[stmt |-> j, msg |-> InvalidEntry]>>

(***************************************************************************)
(* check_omp_nesting_restrictions, called by scan_omp_1 for a directive t  *)
(* found in context ctx.                                                   *)
(***************************************************************************)
\* A directive: its code, whether it has the ordered clause (a loop) and
\* its name (a critical; 0 for none).
Directive(code, ordered, name) ==
  [code |-> code, ordered |-> ordered, name |-> name]

Directives ==
  {Directive(c, FALSE, 0) :
     c \in {"OMP_PARALLEL", "OMP_SECTIONS", "OMP_SECTION", "OMP_SINGLE",
            "OMP_MASTER", "OMP_ORDERED"}}
    \cup {Directive("OMP_FOR", o, 0) : o \in BOOLEAN}
    \cup {Directive("OMP_CRITICAL", FALSE, n) : n \in 0 .. 1}

WorkSharingWarning ==
  "work-sharing region may not be closely nested inside of work-sharing, critical, ordered or master region"
MasterWarning ==
  "master region may not be closely nested inside of work-sharing region"
OrderedInCriticalWarning ==
  "ordered region may not be closely nested inside of critical region"
OrderedLoopWarning ==
  "ordered region must be closely nested inside a loop region with an ordered clause"
CriticalWarning ==
  "critical region may not be nested inside a critical region with the same name"

WorkSharingCodes == {"OMP_FOR", "OMP_SECTIONS", "OMP_SINGLE"}

\* The four walks over ctx, ctx->outer, ...: the warnings issued.
RECURSIVE WalkWorkSharing(_)
WalkWorkSharing(ctx) ==
  IF ctx = <<>> THEN <<>>
  ELSE IF Head(ctx).code \in WorkSharingCodes \cup {"OMP_ORDERED", "OMP_MASTER"}
    THEN <<WorkSharingWarning>>
  ELSE IF Head(ctx).code = "OMP_PARALLEL" THEN <<>>
  ELSE WalkWorkSharing(Tail(ctx))

RECURSIVE WalkMaster(_)
WalkMaster(ctx) ==
  IF ctx = <<>> THEN <<>>
  ELSE IF Head(ctx).code \in WorkSharingCodes THEN <<MasterWarning>>
  ELSE IF Head(ctx).code = "OMP_PARALLEL" THEN <<>>
  ELSE WalkMaster(Tail(ctx))

RECURSIVE WalkOrdered(_)
WalkOrdered(ctx) ==
  IF ctx = <<>> THEN <<>>
  ELSE IF Head(ctx).code = "OMP_CRITICAL" THEN <<OrderedInCriticalWarning>>
  ELSE IF Head(ctx).code = "OMP_FOR"
    THEN IF ~Head(ctx).ordered THEN <<OrderedLoopWarning>> ELSE <<>>
  ELSE IF Head(ctx).code = "OMP_PARALLEL" THEN <<>>
  ELSE WalkOrdered(Tail(ctx))

RECURSIVE WalkCritical(_, _)
WalkCritical(t, ctx) ==
  IF ctx = <<>> THEN <<>>
  ELSE IF Head(ctx).code = "OMP_CRITICAL" /\ Head(ctx).name = t.name
    THEN <<CriticalWarning>>
  ELSE WalkCritical(t, Tail(ctx))

check_omp_nesting_restrictions(t, ctx) ==
  CASE t.code \in WorkSharingCodes -> WalkWorkSharing(ctx)
    [] t.code = "OMP_MASTER" -> WalkMaster(ctx)
    [] t.code = "OMP_ORDERED" -> WalkOrdered(ctx)
    [] t.code = "OMP_CRITICAL" -> WalkCritical(t, ctx)
    [] OTHER -> <<>>

\* scan_omp_1 at the directive: the check is made only inside a context.
scan_omp_1 ==
  /\ nest_stmt # <<>>
  /\ ~nest_scanned
  /\ nest_warnings' = IF nest_ctx # <<>>
                        THEN check_omp_nesting_restrictions(nest_stmt, nest_ctx)
                        ELSE <<>>
  /\ nest_scanned' = TRUE
  /\ UNCHANGED <<nest_stmt, nest_ctx>>
  /\ UNCHANGED OtherThanNest

\* The contexts a parsed function can have around a directive: a section
\* lies directly in a sections construct and nothing else does.
ContextChains ==
  UNION {[1 .. n -> Directives] : n \in 0 .. MaxDepth}

WellNested(t, ctx) ==
  LET all == <<t>> \o ctx
  IN \A i \in DOMAIN all :
       /\ all[i].code = "OMP_SECTION" =>
            (i < Len(all) /\ all[i + 1].code = "OMP_SECTIONS")
       /\ (i > 1 /\ all[i].code = "OMP_SECTIONS") =>
            all[i - 1].code = "OMP_SECTION"

InitNest ==
  /\ nest_stmt \in Directives
  /\ nest_ctx \in ContextChains
  /\ WellNested(nest_stmt, nest_ctx)
  /\ nest_warnings = <<>>
  /\ nest_scanned = FALSE
  /\ IdleButNest

NextNest == scan_omp_1

SpecNest == InitNest /\ [][NextNest]_vars

\* The directives around t up to, not including, the nearest parallel.
RECURSIVE CloselyAround(_)
CloselyAround(ctx) ==
  IF ctx = <<>> \/ Head(ctx).code = "OMP_PARALLEL" THEN {}
  ELSE {Head(ctx)} \cup CloselyAround(Tail(ctx))

Warned(w) == \E i \in DOMAIN nest_warnings : nest_warnings[i] = w

\* C10: a scanned work-sharing construct (for, sections, single) got the
\* work-sharing nesting warning if and only if one of the regions around
\* it, up to the nearest parallel, is a work-sharing, critical, ordered or
\* master region.
C10_WorkSharingNesting ==
  (nest_scanned /\ nest_stmt.code \in WorkSharingCodes) =>
    (Warned(WorkSharingWarning)
       <=> \E d \in CloselyAround(nest_ctx) :
             d.code \in WorkSharingCodes
                        \cup {"OMP_CRITICAL", "OMP_ORDERED", "OMP_MASTER"})

\* Whether the regions around an ordered region, innermost first, call for
\* a warning: a critical region met before the closest loop region, a
\* closest loop region without the ordered clause, or no loop region before
\* the nearest parallel or the function body.
RECURSIVE OrderedMisplaced(_)
OrderedMisplaced(ctx) ==
  IF ctx = <<>> \/ Head(ctx).code = "OMP_PARALLEL" THEN TRUE
  ELSE IF Head(ctx).code = "OMP_CRITICAL" THEN TRUE
  ELSE IF Head(ctx).code = "OMP_FOR" THEN ~Head(ctx).ordered
  ELSE OrderedMisplaced(Tail(ctx))

\* C11: a scanned ordered region got one of the two ordered warnings if and
\* only if it is closely nested inside a critical region or is not closely
\* nested inside a loop region with the ordered clause, an ordered region
\* with no loop region before the nearest parallel or the function body
\* included.
C11_OrderedNesting ==
  (nest_scanned /\ nest_stmt.code = "OMP_ORDERED") =>
    ((Warned(OrderedInCriticalWarning) \/ Warned(OrderedLoopWarning))
       <=> OrderedMisplaced(nest_ctx))


(***************************************************************************)
(* Parallel regions: scan_omp_parallel, lower_omp_parallel,                *)
(* determine_parallel_type, expand_omp and expand_omp_parallel on one      *)
(* parallel region and the region directly inside it.                      *)
(***************************************************************************)
\* The child function create_omp_child_function declares: void fn (void *),
\* without a body (cfg) until expand_omp_parallel moves the region into it.
create_omp_child_function ==
  [name |-> "_omp_fn", result |-> "void_type_node", cfg |-> FALSE,
   parms |-> <<[name |-> ".omp_data_i", type |-> "ptr_type_node"]>>]

\* last_and_only_stmt on the parallel's exit block: the OMP_RETURN with
\* nothing before it, or only a label.
ExitOnly(stmt) ==
  stmt.exit_before = <<>>
    \/ stmt.exit_before[Len(stmt.exit_before)] = "LABEL_EXPR"

\* The chunk expression of a loop is an invariant: the clause's expression
\* if there is one, the constant extract_omp_for_data puts in otherwise.
ChunkInvariant(inner) ==
  inner.for_stmt[1].chunk = NULL_TREE \/ inner.invariant.chunk

workshare_safe_to_combine_p(inner) ==
  IF inner.type = "OMP_SECTIONS" THEN TRUE
  ELSE LET f == extract_omp_for_data(inner.for_stmt[1])
       IN /\ inner.invariant.n1
          /\ inner.invariant.n2
          /\ inner.invariant.step
          /\ (f.chunk_size # NULL_TREE => ChunkInvariant(inner))

get_ws_args_for(inner) ==
  IF inner.type = "OMP_FOR"
    THEN LET f == extract_omp_for_data(inner.for_stmt[1])
         IN <<f.n1, f.n2, f.step>> \o f.chunk_size
    ELSE <<inner.nsections>>

NotCombined == [is_combined_parallel |-> FALSE, ws_args |-> NULL_TREE]

\* determine_parallel_type without the look at the inner continue block.
determine_parallel_type_any_cont(stmt, inner) ==
  IF inner.type = "none" \/ ~stmt.has_exit \/ ~inner.has_exit
    THEN NotCombined
  ELSE IF inner.type \notin {"OMP_FOR", "OMP_SECTIONS"} THEN NotCombined
  ELSE IF /\ stmt.entry_succ_is_ws
          /\ inner.exit_succ_is_par
          /\ workshare_safe_to_combine_p(inner)
          /\ (stmt.combined \/ (inner.entry_only /\ ExitOnly(stmt)))
    THEN IF inner.type = "OMP_FOR"
              /\ (\/ inner.for_stmt[1].sched
                        \in {"none", "OMP_CLAUSE_SCHEDULE_STATIC"}
                  \/ inner.for_stmt[1].ordered)
           THEN NotCombined
           ELSE [is_combined_parallel |-> TRUE,
                 ws_args |-> get_ws_args_for(inner)]
  ELSE NotCombined

\* The value of region->is_combined_parallel (set on the parallel and on
\* its inner region alike) and of region->ws_args.
determine_parallel_type_result(stmt, inner) ==
  IF inner.type = "none" \/ ~stmt.has_exit \/ ~inner.has_exit
       \/ ~inner.has_cont
    THEN NotCombined
  ELSE IF inner.type \notin {"OMP_FOR", "OMP_SECTIONS"} THEN NotCombined
  ELSE IF /\ stmt.entry_succ_is_ws
          /\ inner.exit_succ_is_par
          /\ workshare_safe_to_combine_p(inner)
          /\ (stmt.combined \/ (inner.entry_only /\ ExitOnly(stmt)))
    THEN IF inner.type = "OMP_FOR"
              /\ (\/ inner.for_stmt[1].sched
                        \in {"none", "OMP_CLAUSE_SCHEDULE_STATIC"}
                  \/ inner.for_stmt[1].ordered)
           THEN NotCombined
           ELSE [is_combined_parallel |-> TRUE,
                 ws_args |-> get_ws_args_for(inner)]
  ELSE NotCombined

\* scan_omp_parallel: an empty parallel without copyin is dropped when
\* optimizing; any other gets its child function and, if a clause or the
\* body installed a field, its communication record.
scan_omp_parallel ==
  /\ par_phase = "parsed"
  /\ IF par_stmt.optimize /\ par_stmt.empty_body /\ ~par_stmt.copyin
       THEN /\ par_phase' = "dropped"
            /\ UNCHANGED <<par_stmt, par_child>>
       ELSE /\ par_child' = <<create_omp_child_function>>
            /\ par_stmt' = [par_stmt EXCEPT
                 !.fn = <<create_omp_child_function.name>>,
                 !.record_type = par_stmt.fields]
            /\ par_phase' = "scanned"
  /\ UNCHANGED <<par_inner, par_region, par_calls>>
  /\ UNCHANGED OtherThanPar

\* lower_omp_parallel: the sender .omp_data_o exists iff the record does.
lower_omp_parallel ==
  /\ par_phase = "scanned"
  /\ par_stmt' = [par_stmt EXCEPT
       !.data_arg = IF par_stmt.record_type THEN <<".omp_data_o">>
                    ELSE NULL_TREE]
  /\ par_phase' = "lowered"
  /\ UNCHANGED <<par_inner, par_region, par_child, par_calls>>
  /\ UNCHANGED OtherThanPar

\* expand_omp on the parallel region, first step.
determine_parallel_type ==
  /\ par_phase = "lowered"
  /\ par_region' = determine_parallel_type_result(par_stmt, par_inner)
  /\ par_phase' = "typed"
  /\ UNCHANGED <<par_stmt, par_inner, par_child, par_calls>>
  /\ UNCHANGED OtherThanPar

\* The struct omp_region of the inner loop as expand_omp_for reads it.
InnerRegion(inner, reg) ==
  [cont |-> inner.has_cont,
   is_combined_parallel |-> reg.is_combined_parallel,
   nowait |-> inner.return_nowait]

\* expand_omp on the parallel region, second step: the inner regions are
\* expanded before the region itself.  An inner loop goes through
\* expand_omp_for, which records its schedule kind in its region.
expand_omp_inner ==
  /\ par_phase = "typed"
  /\ IF par_inner.type = "OMP_FOR"
       THEN LET f == extract_omp_for_data(par_inner.for_stmt[1])
            IN par_inner' = [par_inner EXCEPT
                 !.sched_kind = f.sched_kind,
                 !.emitted = expand_omp_for_result(
                               InnerRegion(par_inner, par_region), f)]
       ELSE UNCHANGED par_inner
  /\ par_phase' = "inner_expanded"
  /\ UNCHANGED <<par_stmt, par_region, par_child, par_calls>>
  /\ UNCHANGED OtherThanPar

\* unsigned_type_node at the width of the model.
ToUnsigned(v) == v % TypeMod

\* gimple_boolify
gimple_boolify(c) == IF c # 0 THEN 1 ELSE 0

\* The thread count with the test of the condition the other way round.
ThreadCountInverted(stmt) ==
  LET tree == IF stmt.num_threads = NULL_TREE
                THEN [const |-> TRUE, value |-> 0]
                ELSE stmt.num_threads[1]
      val == ToUnsigned(tree.value)
      integer_zerop == tree.const /\ val = 0
  IN IF stmt.if_clause = NULL_TREE THEN val
     ELSE LET cond == gimple_boolify(stmt.if_clause[1])
          IN IF integer_zerop THEN NE_EXPR(cond, 0)
             ELSE IF cond # 0 THEN val ELSE 1

\* The value of the thread-count argument when the call runs: num_threads
\* is [const, value], a constant or an expression and what it evaluates to;
\* if_clause is what the condition evaluates to.
ThreadCount(stmt) ==
  LET tree == IF stmt.num_threads = NULL_TREE
                THEN [const |-> TRUE, value |-> 0]
                ELSE stmt.num_threads[1]
      val == ToUnsigned(tree.value)
      integer_zerop == tree.const /\ val = 0
  IN IF stmt.if_clause = NULL_TREE THEN val
     ELSE LET cond == gimple_boolify(stmt.if_clause[1])
          IN IF integer_zerop THEN IF cond = 0 THEN 1 ELSE 0
             ELSE IF cond # 0 THEN val ELSE 1

\* A call at the place of the region: the function, the index added to the
\* first builtin of its family, its address arguments and its integer
\* arguments, each in order.
ParCall(fn, ix, addrs, ints) ==
  [fn |-> fn, ix |-> ix, addrs |-> addrs, ints |-> ints]

\* start_ix with the schedule kind of the inner loop left out.
ParallelStartPlain(reg, inner) ==
  IF reg.is_combined_parallel
    THEN IF inner.type = "OMP_FOR"
           THEN [fn |-> "GOMP_parallel_loop_start", ix |-> 0]
           ELSE [fn |-> "GOMP_parallel_sections_start", ix |-> 0]
    ELSE [fn |-> "GOMP_parallel_start", ix |-> 0]

\* start_ix: the flavor of GOMP_parallel_start.
ParallelStart(reg, inner) ==
  IF reg.is_combined_parallel
    THEN IF inner.type = "OMP_FOR"
           THEN [fn |-> "GOMP_parallel_loop_start",
                 ix |-> SchedIndex(inner.sched_kind)]
           ELSE [fn |-> "GOMP_parallel_sections_start", ix |-> 0]
    ELSE [fn |-> "GOMP_parallel_start", ix |-> 0]

\* The argument naming the communication record, for the child that takes
\* the parent's record whatever it is.
DataAddressAlways(stmt) == "&.omp_data_o"

\* t1: the address of OMP_PARALLEL_DATA_ARG, or the null pointer.
DataAddress(stmt) ==
  IF stmt.data_arg = NULL_TREE THEN "null_pointer_node"
  ELSE "&" \o stmt.data_arg[1]

expand_parallel_call(stmt, reg, inner, ws_args) ==
  LET start == ParallelStart(reg, inner)
      fn == stmt.fn[1]
  IN <<ParCall(start.fn, start.ix, <<"&" \o fn, DataAddress(stmt)>>,
               <<ThreadCount(stmt)>> \o ws_args),
       ParCall(fn, 0, <<DataAddress(stmt)>>, <<>>),
       ParCall("GOMP_parallel_end", 0, <<>>, <<>>)>>

\* expand_omp_parallel: the region is moved into the child function and the
\* calls take its place.
expand_omp_parallel ==
  /\ par_phase = "inner_expanded"
  /\ LET ws_args == IF par_region.is_combined_parallel
                      THEN par_region.ws_args ELSE NULL_TREE
     IN par_calls' = expand_parallel_call(par_stmt, par_region, par_inner,
                                          ws_args)
  /\ par_child' = <<[par_child[1] EXCEPT !.cfg = TRUE]>>
  /\ par_phase' = "expanded"
  /\ UNCHANGED <<par_stmt, par_inner, par_region>>
  /\ UNCHANGED OtherThanPar


\* The loops that may sit directly in the parallel.
InnerLoops ==
  {f \in ForStmts({0}, {3}, {1}) :
     /\ WellFormedFor(f)
     /\ f.cond = "LT_EXPR" /\ f.incr = "PLUS_EXPR"
     /\ f.chunk \in {NULL_TREE, <<2>>}}

\* Which of the loop's expressions are invariants (is_gimple_min_invariant):
\* all of them, or all but one.
Invariants ==
  {i \in [n1 : BOOLEAN, n2 : BOOLEAN, step : BOOLEAN, chunk : BOOLEAN] :
     Cardinality({k \in {"n1", "n2", "step", "chunk"} : ~i[k]}) <= 1}

AllInvariant == [n1 |-> TRUE, n2 |-> TRUE, step |-> TRUE, chunk |-> TRUE]

\* OMP_RETURN_NOWAIT of the inner region when expand_omp starts: the nowait
\* clause (lower_omp_for, lower_omp_sections, lower_omp_single), or the
\* flag remove_exit_barrier sets.
ReturnNowait(stmt, inner) ==
  \/ inner.clause_nowait
  \/ /\ stmt.has_exit /\ ExitBarrierRemovable(stmt.exit_before)
     /\ inner.has_exit /\ inner.exit_succ_is_par

\* The OMP_PARALLEL statements: clauses, body facts and blocks.
ParStmts(ifs, nums, opts, empties) ==
  {st \in [combined : BOOLEAN, if_clause : ifs, num_threads : nums,
           optimize : opts, empty_body : empties, copyin : BOOLEAN,
           fields : BOOLEAN, has_exit : BOOLEAN,
           exit_before : {<<>>, <<"LABEL_EXPR">>, <<"GIMPLE_MODIFY_STMT">>},
           entry_succ_is_ws : BOOLEAN,
           fn : {NULL_TREE}, record_type : {FALSE}, data_arg : {NULL_TREE}] :
     /\ ~st.has_exit => st.exit_before = <<>>
     /\ st.empty_body => ~st.combined /\ ~st.entry_succ_is_ws
     /\ st.copyin => st.fields}

\* The regions directly inside the parallel st, as build_omp_regions and
\* remove_exit_barriers leave them.
ParInners(st, types) ==
  {r \in UNION {[type : {t},
                  for_stmt : IF t = "OMP_FOR"
                               THEN {<<f>> : f \in InnerLoops}
                               ELSE {NULL_TREE},
                  invariant : IF t = "OMP_FOR" THEN Invariants
                              ELSE {AllInvariant},
                  nsections : {2},
                  clause_nowait : BOOLEAN, has_exit : BOOLEAN,
                  has_cont : BOOLEAN, entry_only : BOOLEAN,
                  exit_succ_is_par : BOOLEAN, return_nowait : BOOLEAN,
                  sched_kind : {"OMP_CLAUSE_SCHEDULE_STATIC"},
                  emitted : {NotExpanded}] : t \in types} :
     /\ r.type = "OMP_FOR" =>
          /\ r.has_exit
          /\ r.clause_nowait = r.for_stmt[1].nowait
     /\ r.type = "none" =>
          /\ ~r.clause_nowait /\ ~r.has_exit /\ ~r.has_cont
          /\ ~r.entry_only /\ ~st.entry_succ_is_ws
     /\ st.empty_body => r.type = "none"
     /\ st.combined => r.type \in {"OMP_FOR", "OMP_SECTIONS"}
     /\ ~r.has_exit => ~r.exit_succ_is_par
     /\ ~(st.has_exit /\ r.has_exit) => ~r.exit_succ_is_par
     /\ r.return_nowait = ReturnNowait(st, r)}

ParStart(st, inner) ==
  /\ par_stmt = st
  /\ par_inner = inner
  /\ par_region = NotCombined
  /\ par_child = <<>>
  /\ par_calls = <<>>
  /\ par_phase = "parsed"

NextPar ==
  \/ scan_omp_parallel
  \/ lower_omp_parallel
  \/ determine_parallel_type
  \/ expand_omp_inner
  \/ expand_omp_parallel

\* Parallel regions without if and num_threads clauses around every kind of
\* inner region.
InitParType ==
  /\ IdleButPar
  /\ \E st \in ParStmts({NULL_TREE}, {NULL_TREE}, {FALSE}, {FALSE}) :
       \E inner \in ParInners(st, {"none", "OMP_FOR", "OMP_SECTIONS",
                                   "OMP_SINGLE"}) :
         st.fields /\ ~st.copyin /\ ParStart(st, inner)

SpecParType == InitParType /\ [][NextPar]_vars

\* The claim's condition (a) on the blocks: the parallel was found to hold
\* exactly one work-sharing construct (OMP_PARALLEL_COMBINED), or nothing
\* but the directive is in the work-sharing entry block and nothing but the
\* return marker in the parallel's exit block.
BodyIsOneWorkshare ==
  /\ par_inner.type \in {"OMP_FOR", "OMP_SECTIONS"}
  /\ par_stmt.has_exit /\ par_inner.has_exit
  /\ \/ par_stmt.combined
     \/ /\ par_inner.entry_only
        /\ par_stmt.exit_before \in {<<>>, <<"LABEL_EXPR">>}

\* The claim's condition (b).
FlowsDirectly ==
  par_stmt.entry_succ_is_ws /\ par_inner.exit_succ_is_par

\* The claim's condition (c): for a loop, init, bound, step and chunk are
\* invariants.
LoopInvariants ==
  par_inner.type = "OMP_FOR" =>
    /\ par_inner.invariant.n1 /\ par_inner.invariant.n2
    /\ par_inner.invariant.step
    /\ (par_inner.for_stmt[1].chunk # NULL_TREE => par_inner.invariant.chunk)

\* The claim's exception: a loop with a static schedule, no schedule clause
\* or an ordered clause.
StaticOrOrdered ==
  /\ par_inner.type = "OMP_FOR"
  /\ \/ par_inner.for_stmt[1].sched \in {"none", "OMP_CLAUSE_SCHEDULE_STATIC"}
     \/ par_inner.for_stmt[1].ordered

ParTyped ==
  par_phase \in {"typed", "inner_expanded", "expanded"}

\* C12 as stated: a parallel region is marked combined exactly when its
\* body is one work-sharing loop or sections construct, the blocks flow
\* directly into each other and a loop's init, bound, step and chunk are
\* invariants, unless the loop is static, has no schedule clause or is
\* ordered.
C12_CombinedAsClaimed ==
  ParTyped =>
    (par_region.is_combined_parallel
       <=> (BodyIsOneWorkshare /\ FlowsDirectly /\ LoopInvariants
            /\ ~StaticOrOrdered))

\* C12 amended: the same with one more condition, that the inner region has
\* a continue block (its body reaches the end of an iteration, or of a
\* section).
C12_Combined ==
  ParTyped =>
    (par_region.is_combined_parallel
       <=> (BodyIsOneWorkshare /\ FlowsDirectly /\ LoopInvariants
            /\ ~StaticOrOrdered /\ par_inner.has_cont))

\* A dynamic loop with invariant init, bound, step and chunk, alone in its
\* parallel, was marked combined.
C12_Witness ==
  /\ ParTyped
  /\ par_region.is_combined_parallel
  /\ par_inner.type = "OMP_FOR"
  /\ par_inner.for_stmt[1].sched = "OMP_CLAUSE_SCHEDULE_DYNAMIC"
  /\ par_inner.for_stmt[1].chunk # NULL_TREE
  /\ par_region.ws_args = <<0, 3, 1, 2>>


\* A combined parallel+loop region after expand_omp_parallel.
CombinedLoopExpanded ==
  /\ par_phase = "expanded"
  /\ par_region.is_combined_parallel
  /\ par_inner.type = "OMP_FOR"

\* The schedule kind of the loop's schedule clause, as a number.
ClauseSchedIndex == SchedIndex(par_inner.for_stmt[1].sched)

\* The start call emitted for the combined region is
\* GOMP_parallel_loop_<sched>_start (fn, &data, nthreads, n1, n2, step
\* [, chunk]), the inner loop having been expanded before.
CombinedStartCall ==
  LET c == par_calls[1]
      f == par_inner.for_stmt[1]
  IN /\ par_inner.emitted.shape = "generic"
     /\ c.fn = "GOMP_parallel_loop_start"
     /\ c.ix = ClauseSchedIndex
     /\ c.addrs = <<"&_omp_fn", "&.omp_data_o">>
     /\ SubSeq(c.ints, 1, 4) = <<0, f.n1, f.n2, f.s>>
     /\ \/ Len(c.ints) = 4
        \/ /\ Len(c.ints) = 5
           /\ c.ints[5] = IF f.chunk = NULL_TREE THEN 1 ELSE f.chunk[1]

\* The child holds no GOMP_loop_<sched>_start: the call in its entry block,
\* the first it makes, is GOMP_loop_<sched>_next.
ChildDispatchesWithNext ==
  LET calls == par_inner.emitted.calls
  IN /\ \A i \in DOMAIN calls : calls[i].fn # "GOMP_loop_start"
     /\ calls # <<>>
     /\ calls[1].bb = "entry_bb"
     /\ calls[1].fn = "GOMP_loop_next"
     /\ calls[1].ix = ClauseSchedIndex

\* The call that replaces the loop's return marker.
LoopClosingCall ==
  LET calls == par_inner.emitted.calls
  IN calls[Len(calls)].fn

\* C13 as stated: for a combined parallel+loop region the parent emits
\* GOMP_parallel_loop_<sched>_start with the loop's bounds, the child's
\* first dispatch call is GOMP_loop_<sched>_next, and the loop is closed by
\* GOMP_loop_end_nowait ().
C13_CombinedLoopAsClaimed ==
  CombinedLoopExpanded =>
    /\ CombinedStartCall
    /\ ChildDispatchesWithNext
    /\ LoopClosingCall = "GOMP_loop_end_nowait"

\* C13 amended: the same, but the loop is closed by GOMP_loop_end_nowait ()
\* only if its return marker carries the nowait flag (from a nowait clause
\* or from remove_exit_barrier, which sets it when nothing but labels
\* precedes the parallel's return marker), and by GOMP_loop_end ()
\* otherwise.
C13_CombinedLoop ==
  CombinedLoopExpanded =>
    /\ CombinedStartCall
    /\ ChildDispatchesWithNext
    /\ LoopClosingCall = IF par_inner.return_nowait
                           THEN "GOMP_loop_end_nowait" ELSE "GOMP_loop_end"

\* A combined parallel with a guided loop was expanded, the loop's barrier
\* removed.
C13_Witness ==
  /\ CombinedLoopExpanded
  /\ par_inner.for_stmt[1].sched = "OMP_CLAUSE_SCHEDULE_GUIDED"
  /\ par_calls[1].ix = 2
  /\ ~par_inner.for_stmt[1].nowait
  /\ LoopClosingCall = "GOMP_loop_end_nowait"


\* The if conditions and num_threads expressions of the parallel: what the
\* condition evaluates to; whether num_threads is a constant and what it
\* evaluates to.
IfClauses == {NULL_TREE} \cup {<<c>> : c \in 0 .. 2}

NumThreadsClauses ==
  {NULL_TREE} \cup {<<[const |-> k, value |-> v]>> :
                      k \in BOOLEAN, v \in {0 - 1, 0, 3}}

\* Parallel regions with every combination of if, num_threads, copyin and
\* communication record, empty or around a sections construct.
InitParCall ==
  /\ IdleButPar
  /\ \E st \in ParStmts(IfClauses, NumThreadsClauses, BOOLEAN, BOOLEAN) :
       \E inner \in ParInners(st, {"none", "OMP_SECTIONS"}) :
         /\ inner.type = "OMP_SECTIONS" =>
              /\ inner.has_cont /\ inner.entry_only /\ ~inner.clause_nowait
              /\ st.entry_succ_is_ws /\ st.has_exit
         /\ ParStart(st, inner)

SpecParCall == InitParCall /\ [][NextPar]_vars

\* The one child function: void fn (void *), holding the region.
OneChildFunction ==
  /\ Len(par_child) = 1
  /\ par_child[1].result = "void_type_node"
  /\ Len(par_child[1].parms) = 1
  /\ par_child[1].parms[1].type = "ptr_type_node"
  /\ par_child[1].cfg

\* The three calls at the place of the region, both the start call and the
\* call of the child naming the record by rec.
CallsInOrder(rec) ==
  /\ Len(par_calls) = 3
  /\ par_calls[1].fn \in {"GOMP_parallel_start", "GOMP_parallel_loop_start",
                          "GOMP_parallel_sections_start"}
  /\ par_calls[1].addrs = <<"&" \o par_child[1].name, rec>>
  /\ par_calls[2].fn = par_child[1].name
  /\ par_calls[2].addrs = <<rec>>
  /\ par_calls[2].ints = <<>>
  /\ par_calls[3] = ParCall("GOMP_parallel_end", 0, <<>>, <<>>)

\* C14 as stated: every parallel region ends up with exactly one child
\* function void fn (void *) and, in its place, the start call with the
\* child's address and the record's address, the call of the child on the
\* record's address, and GOMP_parallel_end ().
C14_OutliningAsClaimed ==
  par_phase \in {"expanded", "dropped"} =>
    OneChildFunction /\ CallsInOrder("&.omp_data_o")

\* C14 amended: that holds for every parallel region the scan keeps, with
\* a null pointer in place of the record's address when the region has no
\* communication record; an empty parallel without copyin is dropped by
\* the scan when optimizing and gets neither child nor calls.
C14_Outlining ==
  /\ par_phase = "expanded" =>
       /\ OneChildFunction
       /\ CallsInOrder(IF par_stmt.fields THEN "&.omp_data_o"
                       ELSE "null_pointer_node")
  /\ par_phase = "dropped" =>
       /\ par_stmt.optimize /\ par_stmt.empty_body /\ ~par_stmt.copyin
       /\ par_child = <<>> /\ par_calls = <<>>
  /\ (par_stmt.optimize /\ par_stmt.empty_body /\ ~par_stmt.copyin) =>
       par_phase \in {"parsed", "dropped"}

\* A parallel region with a communication record was outlined and its
\* three calls emitted.
C14_Witness ==
  /\ par_phase = "expanded"
  /\ par_stmt.fields
  /\ OneChildFunction
  /\ par_calls[1].addrs = <<"&_omp_fn", "&.omp_data_o">>
  /\ par_calls[2] = ParCall("_omp_fn", 0, <<"&.omp_data_o">>, <<>>)

\* The value num_threads asks for, as an unsigned number; 0 without the
\* clause.
RequestedThreads ==
  IF par_stmt.num_threads = NULL_TREE THEN 0
  ELSE par_stmt.num_threads[1].value % Pow2(TypeBits)

MaxClauses == 3

\* The most section regions of a sections region.
MaxSections == 3

\* The most critical constructs of one compilation.
MaxCriticals == 4

\* Where the contexts around the construct map a variable: nowhere, in a
\* parallel that names it in a shared clause, in a parallel that names it
\* in another clause, or in a work-sharing construct.
OuterKinds == {"none", "parallel_shared", "parallel_other", "workshare"}

\* The declarations: the attributes use_pointer_for_field and the scan look
\* at, and the nearest outer mapping.
Decls ==
  [aggregate : BOOLEAN, static : BOOLEAN, external : BOOLEAN,
   value_expr : BOOLEAN, result_decl : BOOLEAN, addressable : BOOLEAN,
   readonly : BOOLEAN, outer : OuterKinds]

\* is_global_var
is_global_var(d) == d.static \/ d.external

\* is_global_var (maybe_lookup_decl_in_outer_ctx (decl, ctx)): the clones
\* the outer contexts hold are automatic variables.
IsGlobalOuter(d) == d.outer = "none" /\ is_global_var(d)

\* The decision that looks at every attribute whether or not the variable
\* is to be shared.
use_pointer_for_field_any_clause(d, shared_ctx) ==
  IF d.aggregate THEN TRUE
  ELSE IF d.static \/ d.external THEN TRUE
  ELSE IF ~d.result_decl /\ d.value_expr THEN TRUE
  ELSE IF d.addressable THEN TRUE
  ELSE IF shared_ctx # NULL_TREE /\ ~d.readonly /\ shared_ctx[1].is_nested
            /\ d.outer = "parallel_shared" THEN TRUE
  ELSE FALSE

\* use_pointer_for_field: shared_ctx is NULL_TREE, or <<ctx>> if the
\* variable is to be shared.
use_pointer_for_field(d, shared_ctx) ==
  IF d.aggregate THEN TRUE
  ELSE IF shared_ctx # NULL_TREE
    THEN IF d.static \/ d.external THEN TRUE
         ELSE IF ~d.result_decl /\ d.value_expr THEN TRUE
         ELSE IF d.addressable THEN TRUE
         ELSE IF ~d.readonly /\ shared_ctx[1].is_nested
                   /\ d.outer = "parallel_shared" THEN TRUE
         ELSE FALSE
  ELSE FALSE

ClauseCodes ==
  {"OMP_CLAUSE_PRIVATE", "OMP_CLAUSE_SHARED", "OMP_CLAUSE_FIRSTPRIVATE",
   "OMP_CLAUSE_LASTPRIVATE", "OMP_CLAUSE_REDUCTION", "OMP_CLAUSE_COPYIN"}

\* A clause: OMP_CLAUSE_CODE, OMP_CLAUSE_DECL, and for a reduction its
\* operator and whether it has a placeholder (an array reduction), for a
\* lastprivate whether the variable is firstprivate too.
Clause(code, decl, reduction_code, placeholder, lastprivate_firstprivate) ==
  [code |-> code, decl |-> decl, reduction_code |-> reduction_code,
   placeholder |-> placeholder,
   lastprivate_firstprivate |-> lastprivate_firstprivate]

\* What the first loop of scan_sharing_clauses does for one clause: the
\* local clone, the field and the clause code it leaves.
ScanClause(c, d, ctx) ==
  LET nothing == [local |-> FALSE, field |-> NULL_TREE, code |-> c.code]
      do_private(code) ==
        [local |-> TRUE,
         field |-> IF ~IsGlobalOuter(d)
                     THEN <<[by_ref |-> use_pointer_for_field(d, NULL_TREE)]>>
                     ELSE NULL_TREE,
         code |-> code]
  IN CASE c.code = "OMP_CLAUSE_PRIVATE" ->
            [local |-> TRUE, field |-> NULL_TREE, code |-> c.code]
       [] c.code = "OMP_CLAUSE_SHARED" ->
            LET by_ref == use_pointer_for_field(d, <<ctx>>)
            IN IF IsGlobalOuter(d) THEN nothing
               ELSE IF ~d.readonly \/ d.addressable \/ by_ref
                 THEN [local |-> TRUE, field |-> <<[by_ref |-> by_ref]>>,
                       code |-> c.code]
               ELSE do_private("OMP_CLAUSE_FIRSTPRIVATE")
       [] c.code = "OMP_CLAUSE_LASTPRIVATE" ->
            IF c.lastprivate_firstprivate THEN nothing
            ELSE do_private(c.code)
       [] c.code \in {"OMP_CLAUSE_FIRSTPRIVATE", "OMP_CLAUSE_REDUCTION"} ->
            do_private(c.code)
       [] c.code = "OMP_CLAUSE_COPYIN" ->
            [local |-> FALSE,
             field |-> <<[by_ref |-> use_pointer_for_field(d, NULL_TREE)]>>,
             code |-> c.code]

\* scan_sharing_clauses: the context it fills and the clauses it leaves.
scan_sharing_clauses(clauses, decls, ctx) ==
  LET scanned == [i \in DOMAIN clauses |->
                    ScanClause(clauses[i], decls[clauses[i].decl], ctx)]
      naming(v) == {i \in DOMAIN clauses : clauses[i].decl = v}
      fields(v) == {i \in naming(v) : scanned[i].field # NULL_TREE}
  IN [clauses |-> [i \in DOMAIN clauses |->
                     [clauses[i] EXCEPT !.code = scanned[i].code]],
      decl_map |-> [v \in DOMAIN decls |->
                      \E i \in naming(v) : scanned[i].local],
      field_map |-> [v \in DOMAIN decls |->
                       IF fields(v) = {} THEN NULL_TREE
                       ELSE scanned[CHOOSE i \in fields(v) : TRUE].field]]

\* A reference to a variable: the variable itself, its clone in the
\* construct, its clone in a construct inside, the variable as the parent
\* sees it, or its field in the sender or receiver record; taken as it is,
\* by address or dereferenced.
Ref(base, decl, how) == [base |-> base, decl |-> decl, how |-> how]

NoRef == Ref("none", "", "value")

\* remap_decl that looks for a clone in the context of the reference only:
\* a reference in a work-sharing construct without a clause for the
\* variable stays as it is.
remap_decl_own_context(r, decls, decl_map) ==
  IF r.inner = "ws_private" THEN Ref("inner_clone", r.decl, "value")
  ELSE IF r.inner = "ws_unmapped" THEN Ref("decl", r.decl, "value")
  ELSE IF decl_map[r.decl] THEN Ref("clone", r.decl, "value")
  ELSE IF is_global_var(decls[r.decl]) THEN Ref("decl", r.decl, "value")
  ELSE Ref("error_mark_node", r.decl, "value")

\* remap_decl on a reference in the body: inner tells whether the
\* reference sits in a work-sharing construct inside the parallel, and
\* whether that construct has its own clone of the variable.
remap_decl(r, decls, decl_map) ==
  IF r.inner = "ws_private" THEN Ref("inner_clone", r.decl, "value")
  ELSE IF decl_map[r.decl] THEN Ref("clone", r.decl, "value")
  ELSE IF is_global_var(decls[r.decl]) THEN Ref("decl", r.decl, "value")
  ELSE Ref("error_mark_node", r.decl, "value")

\* scan_omp_parallel on the construct: new context, clauses, then body.
scan_parallel_clauses ==
  /\ sh_phase = "parsed"
  /\ LET ctx == [is_nested |-> sh_stmt.is_nested]
         sc == scan_sharing_clauses(sh_stmt.clauses, sh_decls, ctx)
     IN /\ sh_ctx' = [is_nested |-> sh_stmt.is_nested,
                      decl_map |-> sc.decl_map, field_map |-> sc.field_map,
                      value_expr |-> [v \in DOMAIN sh_decls |-> NoRef]]
        /\ sh_stmt' = [sh_stmt EXCEPT !.clauses = sc.clauses]
        /\ sh_child' = [sh_child EXCEPT !.body =
             [i \in DOMAIN sh_stmt.body |->
                remap_decl(sh_stmt.body[i], sh_decls, sc.decl_map)]]
  /\ sh_phase' = "scanned"
  /\ UNCHANGED <<sh_decls, sh_parent, sh_ran>>
  /\ UNCHANGED OtherThanShare


\* A statement: its code, what it assigns to and from, the operator or the
\* function it names, and for a COND_EXPR its condition and the statements
\* it guards.
Stmt(op, lhs, rhs, code, body) ==
  [op |-> op, lhs |-> lhs, rhs |-> rhs, code |-> code, body |-> body]

Assign(lhs, rhs) == Stmt("GIMPLE_MODIFY_STMT", lhs, rhs, "", <<>>)

CallStmt(fn) == Stmt("CALL_EXPR", NoRef, NoRef, fn, <<>>)

build_receiver_ref(v, by_ref) ==
  Ref("receiver_field", v, IF by_ref THEN "deref" ELSE "value")

build_sender_ref(v) == Ref("sender_field", v, "value")

\* build_outer_var_ref in a parallel context.
build_outer_var_ref(v, d) ==
  IF IsGlobalOuter(d) THEN Ref("decl", v, "value")
  ELSE build_receiver_ref(v, use_pointer_for_field(d, NULL_TREE))

\* The by-pointer decision of the child for a shared variable, taken as
\* for the private ones.
SharedReceiverByRefAsPrivate(d, ctx) == use_pointer_for_field(d, NULL_TREE)

\* The by-pointer decision of the child for a shared variable.
SharedReceiverByRef(d, ctx) == use_pointer_for_field(d, <<ctx>>)

\* The value expressions lower_rec_input_clauses gives the clones of the
\* shared variables.
SharedValueExprs(clauses, decls, ctx) ==
  [v \in DOMAIN decls |->
     IF \E i \in DOMAIN clauses :
          /\ clauses[i].decl = v
          /\ clauses[i].code = "OMP_CLAUSE_SHARED"
          /\ ctx.decl_map[v]
       THEN build_receiver_ref(v, SharedReceiverByRef(decls[v], ctx))
       ELSE NoRef]

\* The statement lower_rec_input_clauses adds to ilist for one clause in
\* the first pass (fixed-size variables) and in the second (placeholders).
InputStmts(c, d, pass) ==
  LET new_var == Ref("clone", c.decl, "value")
  IN IF c.code = "OMP_CLAUSE_FIRSTPRIVATE" /\ pass = 0
       THEN <<Assign(new_var, build_outer_var_ref(c.decl, d))>>
     ELSE IF c.code = "OMP_CLAUSE_REDUCTION" /\ ~c.placeholder /\ pass = 0
       THEN <<Stmt("GIMPLE_MODIFY_STMT", new_var, NoRef,
                   "omp_reduction_init", <<>>)>>
     ELSE IF c.code = "OMP_CLAUSE_REDUCTION" /\ c.placeholder /\ pass = 1
       THEN <<Stmt("OMP_CLAUSE_REDUCTION_INIT", new_var, NoRef, "", <<>>)>>
     ELSE <<>>

RECURSIVE InputPass(_, _, _, _)
InputPass(clauses, decls, pass, i) ==
  IF i > Len(clauses) THEN <<>>
  ELSE InputStmts(clauses[i], decls[clauses[i].decl], pass)
         \o InputPass(clauses, decls, pass, i + 1)

RECURSIVE CopyinSeq(_, _, _)
CopyinSeq(clauses, decls, i) ==
  IF i > Len(clauses) THEN <<>>
  ELSE (IF clauses[i].code = "OMP_CLAUSE_COPYIN"
          THEN <<Assign(Ref("decl", clauses[i].decl, "value"),
                        build_receiver_ref(clauses[i].decl,
                          use_pointer_for_field(decls[clauses[i].decl],
                                                NULL_TREE)))>>
          ELSE <<>>)
         \o CopyinSeq(clauses, decls, i + 1)

\* The barrier after the input setup, asked for by copyin alone.
InputBarrierCopyinOnly(clauses, decls) ==
  \E i \in DOMAIN clauses :
    /\ clauses[i].code = "OMP_CLAUSE_COPYIN"
    /\ use_pointer_for_field(decls[clauses[i].decl], NULL_TREE)

\* copyin_by_ref || lastprivate_firstprivate
InputBarrier(clauses, decls) ==
  \/ \E i \in DOMAIN clauses :
       /\ clauses[i].code = "OMP_CLAUSE_COPYIN"
       /\ use_pointer_for_field(decls[clauses[i].decl], NULL_TREE)
  \/ \E i \in DOMAIN clauses :
       /\ clauses[i].code = "OMP_CLAUSE_LASTPRIVATE"
       /\ clauses[i].lastprivate_firstprivate

\* lower_rec_input_clauses: ilist.
lower_rec_input_clauses(clauses, decls) ==
  LET copyin_seq == CopyinSeq(clauses, decls, 1)
  IN InputPass(clauses, decls, 0, 1)
       \o InputPass(clauses, decls, 1, 1)
       \o (IF copyin_seq # <<>>
             THEN <<Stmt("COND_EXPR", NoRef, NoRef,
                         "omp_get_thread_num () != 0", copyin_seq)>>
             ELSE <<>>)
       \o (IF InputBarrier(clauses, decls)
             THEN <<CallStmt("GOMP_barrier")>> ELSE <<>>)

\* The count without the look at the placeholder.
RECURSIVE CountScalarOrArray(_, _, _)
CountScalarOrArray(clauses, i, count) ==
  IF i > Len(clauses) \/ count >= 2 THEN count
  ELSE IF clauses[i].code = "OMP_CLAUSE_REDUCTION"
    THEN CountScalarOrArray(clauses, i + 1, count + 1)
  ELSE CountScalarOrArray(clauses, i + 1, count)

\* The first loop of lower_reduction_clauses: 0, 1, 2 or -1.
RECURSIVE CountReductions(_, _, _)
CountReductions(clauses, i, count) ==
  IF i > Len(clauses) \/ count >= 2 THEN count
  ELSE IF clauses[i].code = "OMP_CLAUSE_REDUCTION"
    THEN IF clauses[i].placeholder THEN 0 - 1
         ELSE CountReductions(clauses, i + 1, count + 1)
  ELSE CountReductions(clauses, i + 1, count)

\* "reduction(-:var) sums up the partial results"
MergeCode(c) ==
  IF c.reduction_code = "MINUS_EXPR" THEN "PLUS_EXPR" ELSE c.reduction_code

\* The merge of one reduction clause: by OMP_ATOMIC if count is 1, else
\* the statement for sub_list.
MergeStmt(c, d, count) ==
  LET new_var == Ref("clone", c.decl, "value")
      ref == build_outer_var_ref(c.decl, d)
  IN IF count = 1 THEN Stmt("OMP_ATOMIC", ref, new_var, MergeCode(c), <<>>)
     ELSE IF c.placeholder
       THEN Stmt("OMP_CLAUSE_REDUCTION_MERGE", ref, new_var, "", <<>>)
     ELSE Stmt("GIMPLE_MODIFY_STMT", ref, new_var, MergeCode(c), <<>>)

RECURSIVE MergeList(_, _, _, _)
MergeList(clauses, decls, count, i) ==
  IF i > Len(clauses) THEN <<>>
  ELSE IF clauses[i].code # "OMP_CLAUSE_REDUCTION"
    THEN MergeList(clauses, decls, count, i + 1)
  ELSE IF count = 1
    THEN <<MergeStmt(clauses[i], decls[clauses[i].decl], count)>>
  ELSE <<MergeStmt(clauses[i], decls[clauses[i].decl], count)>>
         \o MergeList(clauses, decls, count, i + 1)

lower_reduction_clauses(clauses, decls) ==
  LET count == CountReductions(clauses, 1, 0)
  IN IF count = 0 THEN <<>>
     ELSE IF count = 1 THEN MergeList(clauses, decls, count, 1)
     ELSE <<CallStmt("GOMP_atomic_start")>>
            \o MergeList(clauses, decls, count, 1)
            \o <<CallStmt("GOMP_atomic_end")>>

\* lower_send_clauses for one clause: what goes to ilist and to olist.
SendStmts(c, d) ==
  LET var == Ref("outer", c.decl, "value")
      by_ref == use_pointer_for_field(d, NULL_TREE)
      in == <<Assign(build_sender_ref(c.decl),
                     Ref("outer", c.decl,
                         IF by_ref THEN "addr" ELSE "value"))>>
      out == <<Assign(var, build_sender_ref(c.decl))>>
      none == [ilist |-> <<>>, olist |-> <<>>]
  IN IF c.code \notin {"OMP_CLAUSE_FIRSTPRIVATE", "OMP_CLAUSE_COPYIN",
                       "OMP_CLAUSE_LASTPRIVATE", "OMP_CLAUSE_REDUCTION"}
       THEN none
     ELSE IF c.code # "OMP_CLAUSE_COPYIN" /\ IsGlobalOuter(d) THEN none
     ELSE IF c.code \in {"OMP_CLAUSE_FIRSTPRIVATE", "OMP_CLAUSE_COPYIN"}
       THEN [ilist |-> in, olist |-> <<>>]
     ELSE IF c.code = "OMP_CLAUSE_LASTPRIVATE"
       THEN IF by_ref
              THEN IF c.lastprivate_firstprivate THEN none
                   ELSE [ilist |-> in, olist |-> <<>>]
              ELSE [ilist |-> <<>>, olist |-> out]
     ELSE [ilist |-> in, olist |-> IF by_ref THEN <<>> ELSE out]

\* lower_send_shared_vars for the field of one variable.
SendSharedStmts(v, d, ctx) ==
  IF ctx.field_map[v] = NULL_TREE \/ ~ctx.decl_map[v]
       \/ ctx.value_expr[v] = NoRef
    THEN [ilist |-> <<>>, olist |-> <<>>]
  ELSE IF use_pointer_for_field(d, <<ctx>>)
    THEN [ilist |-> <<Assign(build_sender_ref(v), Ref("outer", v, "addr"))>>,
          olist |-> <<>>]
  ELSE [ilist |-> <<Assign(build_sender_ref(v), Ref("outer", v, "value"))>>,
        olist |-> <<Assign(Ref("outer", v, "value"), build_sender_ref(v))>>]

\* lower_send_clauses, then lower_send_shared_vars, over the clauses.
RECURSIVE SendList(_, _, _, _, _)
SendList(clauses, decls, ctx, shared, i) ==
  IF i > Len(clauses) THEN [ilist |-> <<>>, olist |-> <<>>]
  ELSE LET c == clauses[i]
           one == IF shared
                    THEN IF \A j \in 1 .. i - 1 : clauses[j].decl # c.decl
                           THEN SendSharedStmts(c.decl, decls[c.decl], ctx)
                           ELSE [ilist |-> <<>>, olist |-> <<>>]
                    ELSE SendStmts(c, decls[c.decl])
           rest == SendList(clauses, decls, ctx, shared, i + 1)
       IN [ilist |-> one.ilist \o rest.ilist,
           olist |-> one.olist \o rest.olist]

\* lower_lastprivate_clauses, reached from the loop combined with the
\* parallel: the clone is assigned back to the outer variable.
RECURSIVE lower_lastprivate_clauses(_, _, _)
lower_lastprivate_clauses(clauses, decls, i) ==
  IF i > Len(clauses) THEN <<>>
  ELSE (IF clauses[i].code = "OMP_CLAUSE_LASTPRIVATE"
          THEN <<Assign(build_outer_var_ref(clauses[i].decl,
                                            decls[clauses[i].decl]),
                        Ref("clone", clauses[i].decl, "value"))>>
          ELSE <<>>)
         \o lower_lastprivate_clauses(clauses, decls, i + 1)

\* lower_omp_parallel on the clauses: the input setup and the reduction
\* merges of the child, the stores and loads of the parent.
lower_parallel_clauses ==
  /\ sh_phase = "scanned"
  /\ LET ctx == [sh_ctx EXCEPT !.value_expr =
                   SharedValueExprs(sh_stmt.clauses, sh_decls, sh_ctx)]
         send == SendList(sh_stmt.clauses, sh_decls, ctx, FALSE, 1)
         shared == SendList(sh_stmt.clauses, sh_decls, ctx, TRUE, 1)
     IN /\ sh_ctx' = ctx
        /\ sh_child' = [sh_child EXCEPT
             !.ilist = lower_rec_input_clauses(sh_stmt.clauses, sh_decls),
             !.lastprivate =
                lower_lastprivate_clauses(sh_stmt.clauses, sh_decls, 1),
             !.olist = lower_reduction_clauses(sh_stmt.clauses, sh_decls)]
        /\ sh_parent' = [ilist |-> send.ilist \o shared.ilist,
                         olist |-> send.olist \o shared.olist]
  /\ sh_phase' = "lowered"
  /\ UNCHANGED <<sh_decls, sh_stmt, sh_ran>>
  /\ UNCHANGED OtherThanShare

\* The statements of a list a thread executes: those a COND_EXPR guards
\* only if omp_get_thread_num () is not 0.
RECURSIVE Executed(_, _)
Executed(stmts, tid) ==
  IF stmts = <<>> THEN <<>>
  ELSE (IF Head(stmts).op = "COND_EXPR"
          THEN IF NE_EXPR(tid, 0) = 1 THEN Head(stmts).body ELSE <<>>
          ELSE <<Head(stmts)>>)
         \o Executed(Tail(stmts), tid)

\* Thread tid of the team runs the input setup of the child.
run_input_setup(tid) ==
  /\ sh_phase = "lowered"
  /\ sh_ran[tid] = NULL_TREE
  /\ sh_ran' = [sh_ran EXCEPT ![tid] = <<Executed(sh_child.ilist, tid)>>]
  /\ UNCHANGED <<sh_decls, sh_stmt, sh_ctx, sh_parent, sh_child, sh_phase>>
  /\ UNCHANGED OtherThanShare


\* The clauses that may name the variable v.
ClauseOptions(v) ==
  {Clause(code, v, "ERROR_MARK", FALSE, FALSE) :
     code \in ClauseCodes \ {"OMP_CLAUSE_REDUCTION"}}
  \cup {Clause("OMP_CLAUSE_LASTPRIVATE", v, "ERROR_MARK", FALSE, TRUE)}
  \cup {Clause("OMP_CLAUSE_REDUCTION", v, code, ph, FALSE) :
          code \in {"PLUS_EXPR", "MINUS_EXPR"}, ph \in BOOLEAN}

\* A variable is named by one clause, or by a firstprivate and a
\* lastprivate clause, the latter then marked as such by the gimplifier.
WellFormedClauses(clauses) ==
  \A i \in DOMAIN clauses :
    LET others == {j \in DOMAIN clauses :
                     j # i /\ clauses[j].decl = clauses[i].decl}
    IN IF clauses[i].lastprivate_firstprivate
         THEN \E j \in others :
                /\ others = {j}
                /\ clauses[j].code = "OMP_CLAUSE_FIRSTPRIVATE"
       ELSE IF clauses[i].code = "OMP_CLAUSE_FIRSTPRIVATE"
         THEN \A j \in others :
                /\ others = {j}
                /\ clauses[j].lastprivate_firstprivate
       ELSE others = {}

ClauseLists(names, n) ==
  {cl \in UNION {[1 .. k -> UNION {ClauseOptions(v) : v \in names}] :
                   k \in 0 .. n} : WellFormedClauses(cl)}

\* A variable as the construct may find it: what is threadprivate is
\* global and mapped nowhere; a nested parallel finds a variable that is
\* not global mapped in a context around it, and only a nested parallel
\* finds a parallel around it.
WellFormedDecl(d, clauses, v, is_nested) ==
  /\ (\E i \in DOMAIN clauses :
        clauses[i].decl = v /\ clauses[i].code = "OMP_CLAUSE_COPYIN")
       => (d.static /\ d.outer = "none")
  /\ (is_nested /\ d.outer = "none") => is_global_var(d)
  /\ d.outer \in {"parallel_shared", "parallel_other"} => is_nested
  /\ d.result_decl => ~d.static /\ ~d.external
  /\ ~(d.static /\ d.external)

\* The references of the body to the variables: directly in the parallel,
\* in a work-sharing construct inside that has no clause for them, and in
\* one that has its own clone.
BodyOf(names) ==
  LET Refs(v) == <<[decl |-> v, inner |-> "none"],
                   [decl |-> v, inner |-> "ws_unmapped"],
                   [decl |-> v, inner |-> "ws_private"]>>
  IN IF "b" \in names THEN Refs("a") \o Refs("b") ELSE Refs("a")

ShareThreads == 0 .. MaxThreads - 1

ShareStart(decls, clauses, is_nested) ==
  /\ sh_decls = decls
  /\ sh_stmt = [clauses |-> clauses, is_nested |-> is_nested,
                body |-> BodyOf(DOMAIN decls)]
  /\ sh_ctx = <<>>
  /\ sh_parent = [ilist |-> <<>>, olist |-> <<>>]
  /\ sh_child = [ilist |-> <<>>, body |-> <<>>, lastprivate |-> <<>>,
                 olist |-> <<>>]
  /\ sh_ran = [t \in ShareThreads |-> NULL_TREE]
  /\ sh_phase = "parsed"

NextShare ==
  \/ scan_parallel_clauses
  \/ lower_parallel_clauses
  \/ \E tid \in ShareThreads : run_input_setup(tid)

\* One variable with every combination of attributes, named by one clause
\* or by firstprivate and lastprivate, in a parallel nested or not.
InitShare ==
  /\ IdleButShare
  /\ \E d \in Decls, is_nested \in BOOLEAN :
       \E clauses \in ClauseLists({"a"}, 2) :
         /\ clauses # <<>>
         /\ WellFormedDecl(d, clauses, "a", is_nested)
         /\ ShareStart([v \in {"a"} |-> d], clauses, is_nested)

SpecShare == InitShare /\ [][NextShare]_vars

\* A variable that is aggregate or not, threadprivate if copyin names it.
PlainDecl(aggregate, clauses, v) ==
  [aggregate |-> aggregate,
   static |-> \E i \in DOMAIN clauses :
                clauses[i].decl = v /\ clauses[i].code = "OMP_CLAUSE_COPYIN",
   external |-> FALSE, value_expr |-> FALSE, result_decl |-> FALSE,
   addressable |-> FALSE, readonly |-> FALSE, outer |-> "none"]

\* Up to MaxClauses clauses on three variables, each aggregate or not.
InitLower ==
  /\ IdleButShare
  /\ \E clauses \in ClauseLists({"a", "b", "c"}, MaxClauses) :
       \E agg \in [{"a", "b", "c"} -> BOOLEAN] :
         /\ \A v \in {"a", "b", "c"} :
              (\A i \in DOMAIN clauses : clauses[i].decl # v) => ~agg[v]
         /\ ShareStart([v \in {"a", "b", "c"} |->
                          PlainDecl(agg[v], clauses, v)],
                       clauses, FALSE)

SpecLower == InitLower /\ [][NextShare]_vars


Range(seq) == {seq[i] : i \in DOMAIN seq}

\* The statements of a list, those a COND_EXPR guards included.
AllStmts(stmts) ==
  Range(stmts) \cup UNION {Range(st.body) : st \in Range(stmts)}

\* The references the glue of the child makes: input setup, lastprivate
\* commit, reduction merges.
GlueRefs ==
  LET stmts == AllStmts(sh_child.ilist) \cup AllStmts(sh_child.lastprivate)
                 \cup AllStmts(sh_child.olist)
  IN {st.lhs : st \in stmts} \cup {st.rhs : st \in stmts}

\* The variables a private, firstprivate, lastprivate or reduction clause
\* names.
Privatized ==
  {sh_stmt.clauses[i].decl : i \in
     {j \in DOMAIN sh_stmt.clauses :
        sh_stmt.clauses[j].code \in
          {"OMP_CLAUSE_PRIVATE", "OMP_CLAUSE_FIRSTPRIVATE",
           "OMP_CLAUSE_LASTPRIVATE", "OMP_CLAUSE_REDUCTION"}}}

NamesItself(r, v) == r.base = "decl" /\ r.decl = v

\* C16 as stated: once the parallel is scanned and lowered, nothing in the
\* body that moves into the child refers to a variable V named in a
\* private, firstprivate, lastprivate or reduction clause; the references
\* name a clone of V.
C16_PrivatizedAsClaimed ==
  sh_phase = "lowered" =>
    \A v \in Privatized :
      /\ \A r \in Range(sh_child.body) :
           r.decl = v => r.base \in {"clone", "inner_clone"}
      /\ \A r \in GlueRefs : ~NamesItself(r, v)

\* C16 amended: every reference to V in the body of the construct names a
\* clone of V; the copy-in, copy-out and merge statements the lowering
\* adds to the child refer to V itself exactly when V is a global variable
\* no context around maps, which has no field in the record, and go
\* through the record otherwise.
C16_Privatized ==
  sh_phase = "lowered" =>
    \A v \in Privatized :
      /\ \A r \in Range(sh_child.body) :
           r.decl = v => r.base \in {"clone", "inner_clone"}
      /\ \A r \in GlueRefs :
           r.decl = v =>
             /\ NamesItself(r, v) =>
                  /\ IsGlobalOuter(sh_decls[v])
                  /\ sh_ctx.field_map[v] = NULL_TREE
             /\ r.base \in {"decl", "clone", "receiver_field"}
             /\ r.base = "receiver_field" => ~IsGlobalOuter(sh_decls[v])

\* A firstprivate variable that is not global was scanned and lowered: the
\* body names its clone, also from a work-sharing construct inside, and the
\* input setup copies the field of the record into the clone.
C16_Witness ==
  /\ sh_phase = "lowered"
  /\ "a" \in Privatized
  /\ ~is_global_var(sh_decls["a"])
  /\ sh_child.body[1] = Ref("clone", "a", "value")
  /\ sh_child.body[2] = Ref("clone", "a", "value")
  /\ \E i \in DOMAIN sh_child.ilist :
       /\ sh_child.ilist[i].lhs = Ref("clone", "a", "value")
       /\ sh_child.ilist[i].rhs.base = "receiver_field"

\* The variables with a field in the communication record.
InRecord == {v \in DOMAIN sh_decls : sh_ctx.field_map[v] # NULL_TREE}

SharedByClause(v) ==
  \E i \in DOMAIN sh_stmt.clauses :
    /\ sh_stmt.clauses[i].decl = v
    /\ sh_stmt.clauses[i].code = "OMP_CLAUSE_SHARED"

\* C17 as stated: a variable placed in the record, by whatever clause, is
\* passed by pointer if it is an aggregate, has its address taken, has
\* static or external linkage, has a value expression, or is shared in a
\* parallel around a nested parallel; by value otherwise.
C17_ByPointerAsClaimed ==
  sh_phase \in {"scanned", "lowered"} =>
    \A v \in InRecord :
      sh_ctx.field_map[v][1].by_ref =
        LET d == sh_decls[v]
        IN \/ d.aggregate \/ d.addressable \/ d.static \/ d.external
           \/ d.value_expr
           \/ (sh_ctx.is_nested /\ d.outer = "parallel_shared")

\* C17 amended: an aggregate is passed by pointer whatever the clause; any
\* other variable is passed by pointer only if a shared clause places it
\* and it has static or external linkage, has a value expression and is
\* not the function's result, has its address taken, or is not read-only
\* and is shared in a parallel around the nested parallel.  A variable
\* placed by firstprivate, lastprivate, reduction or copyin that is not an
\* aggregate is passed by value.
C17_ByPointer ==
  sh_phase \in {"scanned", "lowered"} =>
    \A v \in InRecord :
      sh_ctx.field_map[v][1].by_ref =
        LET d == sh_decls[v]
        IN \/ d.aggregate
           \/ /\ SharedByClause(v)
              /\ \/ d.static \/ d.external
                 \/ (d.value_expr /\ ~d.result_decl)
                 \/ d.addressable
                 \/ (~d.readonly /\ sh_ctx.is_nested
                       /\ d.outer = "parallel_shared")

\* A shared scalar whose address is taken got a pointer field, and so did
\* one that is shared in the parallel around.
C17_Witness ==
  /\ sh_phase = "scanned"
  /\ SharedByClause("a")
  /\ ~sh_decls["a"].aggregate
  /\ sh_ctx.field_map["a"] = <<[by_ref |-> TRUE]>>
  /\ \/ sh_decls["a"].addressable
     \/ sh_decls["a"].outer = "parallel_shared"

\* The stores of the parent into the field of v.
ParentStores(v) ==
  {st \in AllStmts(sh_parent.ilist) : st.lhs = build_sender_ref(v)}

\* The references of the child to the field of v: in the statements the
\* lowering adds, and in the value expression of the clone of a shared
\* variable.
ChildFieldRefs(v) ==
  {r \in GlueRefs \cup {sh_ctx.value_expr[v]} :
     r.base = "receiver_field" /\ r.decl = v}

\* C18: for every variable with a field in the record, the field has
\* pointer type exactly when the parent stores an address into it and
\* exactly when the child dereferences it: the decision taken in the scan,
\* in the send and in the receive is the same.
C18_SameDecision ==
  sh_phase = "lowered" =>
    \A v \in InRecord :
      LET by_ref == sh_ctx.field_map[v][1].by_ref
      IN /\ \A st \in ParentStores(v) :
              /\ st.rhs.base = "outer" /\ st.rhs.decl = v
              /\ (st.rhs.how = "addr") = by_ref
              /\ st.rhs.how \in {"addr", "value"}
         /\ \A r \in ChildFieldRefs(v) :
              /\ (r.how = "deref") = by_ref
              /\ r.how \in {"deref", "value"}
         /\ (ParentStores(v) # {} \/ ChildFieldRefs(v) # {})

\* A shared scalar passed by pointer because its address is taken: the
\* parent stored its address, the child dereferences the field.
C18_Witness ==
  /\ sh_phase = "lowered"
  /\ SharedByClause("a")
  /\ ~sh_decls["a"].aggregate
  /\ sh_ctx.field_map["a"] = <<[by_ref |-> TRUE]>>
  /\ Assign(build_sender_ref("a"), Ref("outer", "a", "addr"))
       \in ParentStores("a")
  /\ sh_ctx.value_expr["a"] = Ref("receiver_field", "a", "deref")


\* The reduction clauses of the construct, in order.
ReductionClauses ==
  SelectSeq(sh_stmt.clauses, LAMBDA c : c.code = "OMP_CLAUSE_REDUCTION")

IsCall(st, fn) == st.op = "CALL_EXPR" /\ st.code = fn

\* The operator a reduction is merged with: '+' for '-'.
MergedWith(c) ==
  CASE c.reduction_code = "MINUS_EXPR" -> "PLUS_EXPR"
    [] OTHER -> c.reduction_code

\* C19: lower_reduction_clauses emits nothing without a reduction clause;
\* one OMP_ATOMIC update of the outer variable and no GOMP_atomic_start or
\* GOMP_atomic_end for exactly one reduction clause that is scalar; in
\* every other case one merge per clause, in order, between one
\* GOMP_atomic_start () and one GOMP_atomic_end ().  A '-' reduction is
\* merged with '+'.
C19_ReductionMerge ==
  sh_phase = "lowered" =>
    LET reds == ReductionClauses
        olist == sh_child.olist
    IN IF reds = <<>> THEN olist = <<>>
       ELSE IF Len(reds) = 1 /\ ~reds[1].placeholder
         THEN /\ Len(olist) = 1
              /\ olist[1].op = "OMP_ATOMIC"
              /\ olist[1].code = MergedWith(reds[1])
              /\ olist[1].lhs.decl = reds[1].decl
              /\ olist[1].lhs.base \in {"decl", "receiver_field"}
              /\ olist[1].rhs = Ref("clone", reds[1].decl, "value")
       ELSE /\ Len(olist) = Len(reds) + 2
            /\ IsCall(olist[1], "GOMP_atomic_start")
            /\ IsCall(olist[Len(olist)], "GOMP_atomic_end")
            /\ \A k \in 1 .. Len(reds) :
                 LET st == olist[k + 1]
                 IN /\ st.op = IF reds[k].placeholder
                                 THEN "OMP_CLAUSE_REDUCTION_MERGE"
                                 ELSE "GIMPLE_MODIFY_STMT"
                    /\ ~reds[k].placeholder => st.code = MergedWith(reds[k])
                    /\ st.lhs.decl = reds[k].decl
                    /\ st.lhs.base \in {"decl", "receiver_field"}
                    /\ st.rhs = Ref("clone", reds[k].decl, "value")

\* Two scalar reductions, one of them with '-', were merged with '+'
\* between GOMP_atomic_start and GOMP_atomic_end; or a lone array
\* reduction took the lock.
C19_Witness ==
  /\ sh_phase = "lowered"
  /\ \/ /\ Len(ReductionClauses) = 2
        /\ ReductionClauses[1].reduction_code = "MINUS_EXPR"
        /\ ~ReductionClauses[1].placeholder
        /\ Len(sh_child.olist) = 4
        /\ sh_child.olist[2].code = "PLUS_EXPR"
     \/ /\ Len(ReductionClauses) = 1
        /\ ReductionClauses[1].placeholder
        /\ Len(sh_child.olist) = 3

\* The copyin assignments among statements: the threadprivate variable
\* itself is assigned from its field of the record.
CopyinAssignments(stmts) ==
  {st \in stmts : st.op = "GIMPLE_MODIFY_STMT" /\ st.lhs.base = "decl"
                    /\ st.rhs.base = "receiver_field"}

CopyinNames ==
  {sh_stmt.clauses[i].decl : i \in
     {j \in DOMAIN sh_stmt.clauses :
        sh_stmt.clauses[j].code = "OMP_CLAUSE_COPYIN"}}

\* The condition the claim gives for the barrier.
BarrierNeeded ==
  \/ \E v \in CopyinNames : sh_ctx.field_map[v][1].by_ref
  \/ \E i \in DOMAIN sh_stmt.clauses :
       /\ sh_stmt.clauses[i].code = "OMP_CLAUSE_LASTPRIVATE"
       /\ sh_stmt.clauses[i].lastprivate_firstprivate

\* C20: of the threads that run the input setup, thread 0 executes no
\* copyin assignment and every other thread executes one per copyin
\* clause; the setup ends with a GOMP_barrier () call, its only one, if
\* and only if a copyin variable is passed by pointer or a lastprivate
\* clause is firstprivate too.
C20_InputSetup ==
  sh_phase = "lowered" =>
    /\ \A tid \in DOMAIN sh_ran :
         sh_ran[tid] # NULL_TREE =>
           LET assigned == {st.lhs.decl :
                              st \in CopyinAssignments(Range(sh_ran[tid][1]))}
           IN assigned = IF tid = 0 THEN {} ELSE CopyinNames
    /\ LET ilist == sh_child.ilist
           barriers == {i \in DOMAIN ilist : IsCall(ilist[i], "GOMP_barrier")}
       IN barriers = IF BarrierNeeded THEN {Len(ilist)} ELSE {}

\* Threads 0 and 1 ran an input setup with a copyin variable passed by
\* pointer: only thread 1 assigned it, and both ran the barrier last.
C20_Witness ==
  /\ sh_phase = "lowered"
  /\ CopyinNames # {}
  /\ \E v \in CopyinNames : sh_ctx.field_map[v][1].by_ref
  /\ sh_ran[0] # NULL_TREE /\ sh_ran[1] # NULL_TREE
  /\ CopyinAssignments(Range(sh_ran[0][1])) = {}
  /\ CopyinAssignments(Range(sh_ran[1][1])) # {}
  /\ IsCall(sh_ran[0][1][Len(sh_ran[0][1])], "GOMP_barrier")


(***************************************************************************)
(* lower_omp_parallel, lower_omp_for, lower_omp_sections: the order of the *)
(* statements put in the place of the construct.  The references inside    *)
(* the statements are built as for a parallel context.                     *)
(***************************************************************************)
\* The statements of one origin.
Frag(origin, stmts) ==
  [i \in DOMAIN stmts |-> [frag |-> origin, stmt |-> stmts[i]]]

Marker(code) == Stmt(code, NoRef, NoRef, "", <<>>)

\* The do_dtor label of lower_rec_input_clauses: dlist gets the destructor
\* of the private copy of every private, firstprivate and (not also
\* firstprivate) lastprivate variable whose type has one, in clause order.
RECURSIVE DtorList(_, _, _)
DtorList(clauses, has_dtor, i) ==
  IF i > Len(clauses) THEN <<>>
  ELSE (IF /\ clauses[i].decl \in has_dtor
           /\ \/ clauses[i].code \in {"OMP_CLAUSE_PRIVATE",
                                      "OMP_CLAUSE_FIRSTPRIVATE"}
              \/ /\ clauses[i].code = "OMP_CLAUSE_LASTPRIVATE"
                 /\ ~clauses[i].lastprivate_firstprivate
          THEN <<Stmt("CALL_EXPR", Ref("clone", clauses[i].decl, "value"),
                      NoRef, "omp_clause_dtor", <<>>)>>
          ELSE <<>>)
         \o DtorList(clauses, has_dtor, i + 1)

\* lower_lastprivate_clauses with its predicate: the clauses of the
\* construct, or those of the parallel around a work-sharing construct
\* that has no lastprivate clause of its own.
LastprivateStmts(stmt, decls, predicate) ==
  LET own == lower_lastprivate_clauses(stmt.clauses, decls, 1)
      sub_list == IF own # <<>> \/ stmt.code = "OMP_PARALLEL"
                       \/ stmt.outer = NULL_TREE
                    THEN own
                    ELSE lower_lastprivate_clauses(stmt.outer[1], decls, 1)
  IN IF sub_list = <<>> THEN <<>>
     ELSE IF predicate # ""
       THEN <<Stmt("COND_EXPR", NoRef, NoRef, predicate, sub_list)>>
     ELSE sub_list

\* lower_omp_for_lastprivate: the lastprivate statements are appended to
\* dlist, the initialisation of the iterator to the body.
lower_omp_for_lastprivate(stmt, decls, dlist) ==
  LET stmts == LastprivateStmts(stmt, decls, "!(V cond N2)")
  IN [dlist |-> dlist \o Frag("lastprivate", stmts),
      body |-> IF stmts # <<>>
                 THEN Frag("v_init", <<Assign(Ref("decl", "V", "value"),
                                              NoRef)>>)
                 ELSE <<>>]

\* The sections of the bind lower_omp_sections builds: each section
\* marker, its body and its return marker; the lastprivate statements end
\* the last section.
RECURSIVE SectionsBody(_, _, _)
SectionsBody(stmt, decls, i) ==
  IF i > stmt.sections THEN <<>>
  ELSE Frag("section", <<Marker("OMP_SECTION")>>)
         \o Frag("body", <<Marker("BODY")>>)
         \o (IF i = stmt.sections
               THEN Frag("lastprivate", LastprivateStmts(stmt, decls, ""))
               ELSE <<>>)
         \o Frag("section", <<Marker("OMP_RETURN")>>)
         \o SectionsBody(stmt, decls, i + 1)

\* Whether scan_sharing_clauses gave the context a record type.
HasRecordType(stmt, decls) ==
  LET sc == scan_sharing_clauses(stmt.clauses, decls, [is_nested |-> FALSE])
  IN \E v \in DOMAIN decls : sc.field_map[v] # NULL_TREE

\* lower_omp_parallel: the new body of the construct.
lower_omp_parallel_body ==
  /\ lw_phase = "parsed"
  /\ lw_stmt.code = "OMP_PARALLEL"
  /\ LET par_ilist == lower_rec_input_clauses(lw_stmt.clauses, lw_decls)
         dlist == DtorList(lw_stmt.clauses, lw_stmt.has_dtor, 1)
         merge == lower_reduction_clauses(lw_stmt.clauses, lw_decls)
         par_olist == Frag("dtor", dlist) \o Frag("reduction", merge)
     IN lw_out' =
          (IF HasRecordType(lw_stmt, lw_decls)
             THEN Frag("receiver",
                       <<Assign(Ref("decl", ".omp_data_i", "value"),
                                Ref("decl", ".omp_data_o", "addr"))>>)
             ELSE <<>>)
          \o Frag("input", par_ilist)
          \o Frag("body", <<Marker("BODY")>>)
          \o par_olist
          \o Frag("return", <<Marker("OMP_RETURN")>>)
  /\ lw_phase' = "lowered"
  /\ UNCHANGED <<lw_stmt, lw_decls>>
  /\ UNCHANGED OtherThanLower

\* lower_omp_for.
lower_omp_for ==
  /\ lw_phase = "parsed"
  /\ lw_stmt.code = "OMP_FOR"
  /\ LET ilist == lower_rec_input_clauses(lw_stmt.clauses, lw_decls)
         dtors == Frag("dtor", DtorList(lw_stmt.clauses, lw_stmt.has_dtor, 1))
         last == lower_omp_for_lastprivate(lw_stmt, lw_decls, dtors)
         merge == lower_reduction_clauses(lw_stmt.clauses, lw_decls)
     IN lw_out' =
          (IF lw_stmt.pre_body
             THEN Frag("pre_body", <<Marker("OMP_FOR_PRE_BODY")>>)
             ELSE <<>>)
          \o Frag("input", ilist)
          \o (IF lw_stmt.invariant THEN <<>>
              ELSE Frag("header", <<Marker("get_formal_tmp_var")>>))
          \o last.body
          \o Frag("directive", <<Marker("OMP_FOR")>>)
          \o Frag("body", <<Marker("BODY")>>)
          \o Frag("continue", <<Marker("OMP_CONTINUE")>>)
          \o Frag("reduction", merge)
          \o last.dlist
          \o Frag("return", <<Marker("OMP_RETURN")>>)
  /\ lw_phase' = "lowered"
  /\ UNCHANGED <<lw_stmt, lw_decls>>
  /\ UNCHANGED OtherThanLower

\* lower_omp_sections.
lower_omp_sections ==
  /\ lw_phase = "parsed"
  /\ lw_stmt.code = "OMP_SECTIONS"
  /\ LET ilist == lower_rec_input_clauses(lw_stmt.clauses, lw_decls)
         dlist == DtorList(lw_stmt.clauses, lw_stmt.has_dtor, 1)
         olist == lower_reduction_clauses(lw_stmt.clauses, lw_decls)
     IN lw_out' =
          Frag("input", ilist)
          \o Frag("directive", <<Marker("OMP_SECTIONS")>>)
          \o Frag("directive", <<Marker("OMP_SECTIONS_SWITCH")>>)
          \o SectionsBody(lw_stmt, lw_decls, 1)
          \o Frag("continue", <<Marker("OMP_CONTINUE")>>)
          \o Frag("reduction", olist)
          \o Frag("dtor", dlist)
          \o Frag("return", <<Marker("OMP_RETURN")>>)
  /\ lw_phase' = "lowered"
  /\ UNCHANGED <<lw_stmt, lw_decls>>
  /\ UNCHANGED OtherThanLower

NextLowerOrder ==
  \/ lower_omp_parallel_body
  \/ lower_omp_for
  \/ lower_omp_sections

\* The clauses a directive takes.
DirectiveClauses(code) ==
  IF code = "OMP_PARALLEL"
    THEN {"OMP_CLAUSE_PRIVATE", "OMP_CLAUSE_SHARED",
          "OMP_CLAUSE_FIRSTPRIVATE", "OMP_CLAUSE_REDUCTION",
          "OMP_CLAUSE_COPYIN"}
    ELSE {"OMP_CLAUSE_PRIVATE", "OMP_CLAUSE_FIRSTPRIVATE",
          "OMP_CLAUSE_LASTPRIVATE", "OMP_CLAUSE_REDUCTION"}

\* The variables with a destructor are of class type: no reduction names
\* them, and only a clause that makes a private copy has it called.
DtorSets(clauses) ==
  SUBSET {clauses[i].decl : i \in
            {j \in DOMAIN clauses :
               clauses[j].code \in {"OMP_CLAUSE_PRIVATE",
                                    "OMP_CLAUSE_FIRSTPRIVATE",
                                    "OMP_CLAUSE_LASTPRIVATE"}}}

\* A parallel, a loop or a sections construct with up to two clauses on
\* the variables a and b; the work-sharing constructs stand alone, or in a
\* parallel with no lastprivate clause or with lastprivate (a).
InitLowerOrder ==
  /\ IdleButLower
  /\ \E code \in {"OMP_PARALLEL", "OMP_FOR", "OMP_SECTIONS"} :
       \E clauses \in ClauseLists({"a", "b"}, 2) :
         \E has_dtor \in DtorSets(clauses), flag \in BOOLEAN,
            outer \in {NULL_TREE, <<(<<>>)>>,
                       <<(<<Clause("OMP_CLAUSE_LASTPRIVATE", "a",
                                   "ERROR_MARK", FALSE, FALSE)>>)>>} :
           /\ \A i \in DOMAIN clauses :
                clauses[i].code \in DirectiveClauses(code)
           /\ code = "OMP_PARALLEL" => outer = NULL_TREE /\ ~flag
           /\ (outer # NULL_TREE /\ outer[1] # <<>>) =>
                \A i \in DOMAIN clauses : clauses[i].decl # "a"
           /\ lw_stmt = [code |-> code, clauses |-> clauses,
                         has_dtor |-> has_dtor, outer |-> outer,
                         sections |-> IF code = "OMP_SECTIONS"
                                        THEN (IF flag THEN 2 ELSE 1) ELSE 0,
                         pre_body |-> code = "OMP_FOR" /\ flag,
                         invariant |-> code # "OMP_FOR" \/ flag]
           /\ lw_decls = [v \in {"a", "b"} |-> PlainDecl(FALSE, clauses, v)]
           /\ lw_out = <<>>
           /\ lw_phase = "parsed"

SpecLowerOrder == InitLowerOrder /\ [][NextLowerOrder]_vars

\* The place of an origin in the order of the claim; 0 for the markers
\* and the statements the claim does not list.
OrderRank(frag) ==
  CASE frag = "input" -> 1
    [] frag = "body" -> 2
    [] frag = "lastprivate" -> 3
    [] frag = "reduction" -> 4
    [] frag = "dtor" -> 5
    [] frag = "return" -> 6
    [] OTHER -> 0

\* C21: the statements lower_omp_parallel, lower_omp_for and
\* lower_omp_sections emit come in the order input setup, original body,
\* lastprivate commit, reduction merge, destructor calls, and the return
\* marker is last.
C21_EmitOrder ==
  lw_phase = "lowered" =>
    /\ lw_out[Len(lw_out)].frag = "return"
    /\ \A i, j \in DOMAIN lw_out :
         (i < j /\ OrderRank(lw_out[i].frag) > 0
                /\ OrderRank(lw_out[j].frag) > 0)
           => OrderRank(lw_out[i].frag) <= OrderRank(lw_out[j].frag)


(***************************************************************************)
(* expand_omp_sections                                                     *)
(***************************************************************************)
\* What a case label of the switch jumps to.
Target(kind, id) == [kind |-> kind, id |-> id]

\* CASE_LABEL_EXPR: CASE_LOW (NULL_TREE for the default) and the label.
CaseLabel(low, target) == [low |-> low, target |-> target]

\* The count given to GOMP_sections_start whether or not one of the edges
\* out of the switch block leads to the exit.
SectionsCountAllEdges(len, exit_reachable) == len

\* exit_reachable ? len - 1 : len
SectionsCount(len, exit_reachable) ==
  IF exit_reachable THEN len - 1 ELSE len

\* The loop "Convert each OMP_SECTION into a CASE_LABEL_EXPR" from the
\* region at place n of the chain region->inner, inner->next, ...
RECURSIVE SectionCases(_, _, _)
SectionCases(inner, n, casei) ==
  IF n > Len(inner) THEN <<>>
  ELSE <<CaseLabel(<<casei>>, Target("section", inner[n].entry))>>
         \o SectionCases(inner, n + 1, casei + 1)

\* What expand_omp_sections puts into the blocks of the region.
expand_omp_sections_result(reg) ==
  LET exit_reachable == reg.cont
      len == Len(reg.l0_succs)
      l2 == IF exit_reachable THEN Target("l2", 0) ELSE Target("default", 0)
      start == IF ~reg.is_combined_parallel
                 THEN [fn |-> "GOMP_sections_start",
                       args |-> <<SectionsCount(len, exit_reachable)>>]
                 ELSE [fn |-> "GOMP_sections_next", args |-> <<>>]
  IN [entry_bb |-> <<start>>,
      label_vec |->
        (IF exit_reachable THEN <<CaseLabel(<<0>>, l2)>> ELSE <<>>)
        \o SectionCases(reg.inner, 1, 1)
        \o <<CaseLabel(NULL_TREE, Target("default", 0))>>,
      default_bb |-> <<[fn |-> "__builtin_trap", args |-> <<>>]>>,
      l1_bb |-> IF exit_reachable
                  THEN <<[fn |-> "GOMP_sections_next", args |-> <<>>]>>
                  ELSE <<>>,
      l2_bb |-> IF exit_reachable
                  THEN <<[fn |-> IF reg.nowait
                                   THEN "GOMP_sections_end_nowait"
                                   ELSE "GOMP_sections_end",
                          args |-> <<>>]>>
                  ELSE <<>>]

SectThreads == 0 .. MaxThreads - 1

\* expand_omp_sections; the team then enters the region.  For a region
\* combined with its parallel the count reached the runtime with the call
\* that started the team.
expand_omp_sections ==
  /\ sec_phase = "built"
  /\ sec_emitted' = expand_omp_sections_result(sec_region)
  /\ sec_work' = 1 .. (IF sec_region.is_combined_parallel
                         THEN Len(sec_region.inner)
                         ELSE sec_emitted'.entry_bb[1].args[1])
  /\ sec_pc' = [t \in SectThreads |-> "entry_bb"]
  /\ sec_phase' = "expanded"
  /\ UNCHANGED <<sec_region, sec_v, sec_trace>>
  /\ UNCHANGED OtherThanSect

\* The runtime hands out a section nobody got yet, 0 when none is left.
SectionsToken(v) ==
  IF sec_work = {} THEN v = 0 ELSE v \in sec_work

\* v = GOMP_sections_start (n), or GOMP_sections_next () in ENTRY_BB.
sections_entry_bb(tid) ==
  /\ sec_phase = "expanded" /\ sec_pc[tid] = "entry_bb"
  /\ \E v \in 0 .. MaxSections + 1 :
       /\ SectionsToken(v)
       /\ sec_v' = [sec_v EXCEPT ![tid] = v]
       /\ sec_work' = sec_work \ {v}
       /\ sec_trace' = [sec_trace EXCEPT ![tid] =
            Append(@, [ev |-> sec_emitted.entry_bb[1].fn, n |-> v])]
  /\ sec_pc' = [sec_pc EXCEPT ![tid] = "l0_bb"]
  /\ UNCHANGED <<sec_region, sec_emitted, sec_phase>>
  /\ UNCHANGED OtherThanSect

\* The label the SWITCH_EXPR on v jumps to.
SwitchTarget(label_vec, v) ==
  LET hits == {i \in DOMAIN label_vec : label_vec[i].low = <<v>>}
  IN IF hits # {}
       THEN label_vec[CHOOSE i \in hits : \A j \in hits : i <= j].target
       ELSE label_vec[CHOOSE i \in DOMAIN label_vec :
                        label_vec[i].low = NULL_TREE].target

\* L0: switch (v)
sections_l0_bb(tid) ==
  /\ sec_phase = "expanded" /\ sec_pc[tid] = "l0_bb"
  /\ LET t == SwitchTarget(sec_emitted.label_vec, sec_v[tid])
     IN sec_pc' = [sec_pc EXCEPT ![tid] =
          CASE t.kind = "l2" -> "l2_bb"
            [] t.kind = "default" -> "default_bb"
            [] t.kind = "section" -> "section"]
  /\ UNCHANGED <<sec_region, sec_emitted, sec_work, sec_v, sec_trace,
                 sec_phase>>
  /\ UNCHANGED OtherThanSect

\* The section the switch jumped to runs; it falls through to L1 unless it
\* never reaches its end.
sections_section(tid) ==
  /\ sec_phase = "expanded" /\ sec_pc[tid] = "section"
  /\ LET t == SwitchTarget(sec_emitted.label_vec, sec_v[tid])
         s == CHOOSE n \in DOMAIN sec_region.inner :
                sec_region.inner[n].entry = t.id
     IN /\ sec_trace' = [sec_trace EXCEPT ![tid] =
             Append(@, [ev |-> "section", n |-> t.id])]
        /\ sec_pc' = [sec_pc EXCEPT ![tid] =
             IF sec_region.inner[s].exit = NULL_TREE THEN "noreturn"
             ELSE "l1_bb"]
  /\ UNCHANGED <<sec_region, sec_emitted, sec_work, sec_v, sec_phase>>
  /\ UNCHANGED OtherThanSect

\* L1: v = GOMP_sections_next (); goto L0
sections_l1_bb(tid) ==
  /\ sec_phase = "expanded" /\ sec_pc[tid] = "l1_bb"
  /\ \E v \in 0 .. MaxSections + 1 :
       /\ SectionsToken(v)
       /\ sec_v' = [sec_v EXCEPT ![tid] = v]
       /\ sec_work' = sec_work \ {v}
       /\ sec_trace' = [sec_trace EXCEPT ![tid] =
            Append(@, [ev |-> sec_emitted.l1_bb[1].fn, n |-> v])]
  /\ sec_pc' = [sec_pc EXCEPT ![tid] = "l0_bb"]
  /\ UNCHANGED <<sec_region, sec_emitted, sec_phase>>
  /\ UNCHANGED OtherThanSect

\* L2: GOMP_sections_end () or GOMP_sections_end_nowait ()
sections_l2_bb(tid) ==
  /\ sec_phase = "expanded" /\ sec_pc[tid] = "l2_bb"
  /\ sec_trace' = [sec_trace EXCEPT ![tid] =
       Append(@, [ev |-> sec_emitted.l2_bb[1].fn, n |-> 0])]
  /\ sec_pc' = [sec_pc EXCEPT ![tid] = "done"]
  /\ UNCHANGED <<sec_region, sec_emitted, sec_work, sec_v, sec_phase>>
  /\ UNCHANGED OtherThanSect

\* default: __builtin_trap ()
sections_default_bb(tid) ==
  /\ sec_phase = "expanded" /\ sec_pc[tid] = "default_bb"
  /\ sec_trace' = [sec_trace EXCEPT ![tid] =
       Append(@, [ev |-> sec_emitted.default_bb[1].fn, n |-> 0])]
  /\ sec_pc' = [sec_pc EXCEPT ![tid] = "trapped"]
  /\ UNCHANGED <<sec_region, sec_emitted, sec_work, sec_v, sec_phase>>
  /\ UNCHANGED OtherThanSect

NextSect ==
  \/ expand_omp_sections
  \/ \E tid \in SectThreads :
       \/ sections_entry_bb(tid)
       \/ sections_l0_bb(tid)
       \/ sections_section(tid)
       \/ sections_l1_bb(tid)
       \/ sections_l2_bb(tid)
       \/ sections_default_bb(tid)

\* The permutations of 1 .. k: the entry blocks of the section regions in
\* the order of the chain region->inner.
Chains(k) ==
  {f \in [1 .. k -> 1 .. k] : \A i, j \in 1 .. k : f[i] = f[j] => i = j}

\* A sections region with 1 .. MaxSections section regions, each with or
\* without an exit; the switch block has an edge to every section and,
\* when the OMP_CONTINUE is reachable, one to the block after it.  Only a
\* region with a continue block is combined with its parallel.
InitSect ==
  /\ IdleButSect
  /\ \E k \in 1 .. MaxSections, cont \in BOOLEAN, combined \in BOOLEAN,
        nowait \in BOOLEAN :
       \E chain \in Chains(k), exits \in [1 .. k -> BOOLEAN] :
         /\ combined => cont
         /\ cont => \E n \in 1 .. k : exits[n]
         /\ ~cont => \A n \in 1 .. k : ~exits[n]
         /\ sec_region =
              [inner |-> [n \in 1 .. k |->
                            [entry |-> chain[n],
                             exit |-> IF exits[n] THEN <<chain[n]>>
                                      ELSE NULL_TREE]],
               cont |-> cont, is_combined_parallel |-> combined,
               nowait |-> nowait,
               l0_succs |-> [n \in 1 .. k |-> Target("section", n)]
                              \o (IF cont THEN <<Target("l2", 0)>>
                                  ELSE <<>>)]
  /\ sec_emitted = <<>>
  /\ sec_work = {}
  /\ sec_pc = [t \in SectThreads |-> "none"]
  /\ sec_v = [t \in SectThreads |-> 0]
  /\ sec_trace = [t \in SectThreads |-> <<>>]
  /\ sec_phase = "built"

SpecSect == InitSect /\ [][NextSect]_vars


\* The case labels of the switch with the value n.
CasesOf(n) ==
  {i \in DOMAIN sec_emitted.label_vec : sec_emitted.label_vec[i].low = <<n>>}

DefaultCases ==
  {i \in DOMAIN sec_emitted.label_vec :
     sec_emitted.label_vec[i].low = NULL_TREE}

SectionEntries ==
  {sec_region.inner[n].entry : n \in DOMAIN sec_region.inner}

\* C22: for a sections region with k section regions and a reachable exit
\* the entry block calls GOMP_sections_start (k), or GOMP_sections_next ()
\* if the region is combined with its parallel; the switch has one case 0,
\* to the exit block, one case for each of 1 .. k, to the entry blocks of
\* k different sections, and one default case, to a block that traps; and
\* a thread that has run a section calls GOMP_sections_next () next.
C22_SectionsSwitch ==
  (sec_phase = "expanded" /\ sec_region.cont) =>
    LET k == Len(sec_region.inner)
        label_vec == sec_emitted.label_vec
    IN /\ sec_emitted.entry_bb =
            IF sec_region.is_combined_parallel
              THEN <<[fn |-> "GOMP_sections_next", args |-> <<>>]>>
              ELSE <<[fn |-> "GOMP_sections_start", args |-> <<k>>]>>
       /\ Len(label_vec) = k + 2
       /\ \E i \in DOMAIN label_vec :
            CasesOf(0) = {i} /\ label_vec[i].target = Target("l2", 0)
       /\ \A n \in 1 .. k :
            \E i \in DOMAIN label_vec :
              CasesOf(n) = {i} /\ label_vec[i].target.kind = "section"
       /\ {label_vec[i].target.id :
             i \in UNION {CasesOf(n) : n \in 1 .. k}} = SectionEntries
       /\ Cardinality(SectionEntries) = k
       /\ \E i \in DOMAIN label_vec :
            DefaultCases = {i} /\ label_vec[i].target = Target("default", 0)
       /\ sec_emitted.default_bb[1].fn = "__builtin_trap"
       /\ \A tid \in SectThreads :
            LET tr == sec_trace[tid]
            IN /\ sec_pc[tid] # "trapped"
               /\ \A p \in DOMAIN tr :
                    tr[p].ev = "section" =>
                      /\ p > 1
                      /\ \E i \in CasesOf(tr[p - 1].n) :
                           label_vec[i].target.id = tr[p].n
                      /\ tr[p - 1].ev \in {"GOMP_sections_start",
                                           "GOMP_sections_next"}
                      /\ p < Len(tr) => tr[p + 1].ev = "GOMP_sections_next"
                      /\ (p = Len(tr) /\ sec_pc[tid] = "l0_bb") => FALSE

\* Three sections in a region that is not combined: GOMP_sections_start (3)
\* was called, a thread ran two sections with GOMP_sections_next () after
\* each, got token 0 and left through GOMP_sections_end.
C22_Witness ==
  /\ sec_phase = "expanded" /\ sec_region.cont
  /\ ~sec_region.is_combined_parallel
  /\ Len(sec_region.inner) = 3
  /\ sec_emitted.entry_bb[1].args = <<3>>
  /\ \E tid \in SectThreads :
       /\ sec_pc[tid] = "done"
       /\ Cardinality({p \in DOMAIN sec_trace[tid] :
                         sec_trace[tid][p].ev = "section"}) = 2
       /\ sec_trace[tid][Len(sec_trace[tid])].ev = "GOMP_sections_end"


(***************************************************************************)
(* lower_omp_critical                                                      *)
(***************************************************************************)
\* The mutex symbol that does not look at the name.
CriticalMutexNameFixed(name) == ".gomp_critical_user_"

\* ACONCAT ((".gomp_critical_user_", IDENTIFIER_POINTER (name), NULL))
CriticalMutexName(name) == ".gomp_critical_user_" \o name

\* splay_tree_lookup: the node of the key, NULL_TREE if there is none.
splay_tree_lookup(sp, key) ==
  IF key \in DOMAIN sp THEN <<sp[key]>> ELSE NULL_TREE

\* splay_tree_insert: the node of the key is added, or gets the value.
splay_tree_insert(sp, key, value) ==
  [k \in DOMAIN sp \cup {key} |-> IF k = key THEN value ELSE sp[k]]

\* lower_omp_critical on a construct in the function fn: name is NULL_TREE
\* or <<identifier>>.
lower_omp_critical(name, fn) ==
  /\ Len(crit_lowered) < MaxCriticals
  /\ IF name # NULL_TREE
       THEN LET sp == IF critical_name_mutexes = NULL_TREE
                        THEN [k \in {} |-> 0]
                        ELSE critical_name_mutexes[1]
                n == splay_tree_lookup(sp, name[1])
                decl == IF n = NULL_TREE
                          THEN [uid |-> next_decl_uid,
                                name |-> CriticalMutexName(name[1])]
                          ELSE n[1]
            IN /\ critical_name_mutexes' =
                    IF n = NULL_TREE
                      THEN <<splay_tree_insert(sp, name[1], decl)>>
                      ELSE <<sp>>
               /\ next_decl_uid' =
                    IF n = NULL_TREE THEN next_decl_uid + 1
                    ELSE next_decl_uid
               /\ crit_lowered' = Append(crit_lowered,
                    [fn |-> fn, name |-> name,
                     lock |-> [fn |-> "GOMP_critical_name_start",
                               args |-> <<decl>>],
                     unlock |-> [fn |-> "GOMP_critical_name_end",
                                 args |-> <<decl>>]])
       ELSE /\ crit_lowered' = Append(crit_lowered,
                 [fn |-> fn, name |-> name,
                  lock |-> [fn |-> "GOMP_critical_start", args |-> <<>>],
                  unlock |-> [fn |-> "GOMP_critical_end", args |-> <<>>]])
            /\ UNCHANGED <<critical_name_mutexes, next_decl_uid>>
  /\ UNCHANGED OtherThanCrit

CriticalNames == {NULL_TREE, <<"foo">>, <<"bar">>, <<"foobar">>}

NextCrit ==
  \E name \in CriticalNames, fn \in {"f", "g"} : lower_omp_critical(name, fn)

\* The start of a compilation.
InitCrit ==
  /\ IdleButCrit
  /\ critical_name_mutexes = NULL_TREE
  /\ crit_lowered = <<>>
  /\ next_decl_uid = 0

SpecCrit == InitCrit /\ [][NextCrit]_vars

\* The constructs lowered so far that have the name.
NamedBy(name) ==
  {p \in DOMAIN crit_lowered : crit_lowered[p].name = <<name>>}

\* The names the table holds.
TableKeys ==
  IF critical_name_mutexes = NULL_TREE THEN {}
  ELSE DOMAIN critical_name_mutexes[1]

\* C23: the table holds a mutex for exactly the names of the constructs
\* lowered so far; every construct with a name calls
\* GOMP_critical_name_start and GOMP_critical_name_end on the mutex the
\* table holds for the name, which is the one the first construct with
\* the name created; the mutexes of two names differ, as declarations and
\* as symbols; a construct without a name calls GOMP_critical_start and
\* GOMP_critical_end and leaves the table as it is.
C23_MutexTable ==
  /\ TableKeys = {crit_lowered[p].name[1] :
                    p \in {q \in DOMAIN crit_lowered :
                             crit_lowered[q].name # NULL_TREE}}
  /\ \A p \in DOMAIN crit_lowered :
       LET c == crit_lowered[p]
       IN IF c.name = NULL_TREE
            THEN /\ c.lock = [fn |-> "GOMP_critical_start", args |-> <<>>]
                 /\ c.unlock = [fn |-> "GOMP_critical_end", args |-> <<>>]
            ELSE LET decl == critical_name_mutexes[1][c.name[1]]
                     first == CHOOSE q \in NamedBy(c.name[1]) :
                                \A r \in NamedBy(c.name[1]) : q <= r
                 IN /\ c.lock = [fn |-> "GOMP_critical_name_start",
                                 args |-> <<decl>>]
                    /\ c.unlock = [fn |-> "GOMP_critical_name_end",
                                   args |-> <<decl>>]
                    /\ crit_lowered[first].lock.args = <<decl>>
  /\ \A k1, k2 \in TableKeys :
       k1 # k2 =>
         /\ critical_name_mutexes[1][k1].uid
              # critical_name_mutexes[1][k2].uid
         /\ critical_name_mutexes[1][k1].name
              # critical_name_mutexes[1][k2].name
  /\ next_decl_uid = Cardinality(TableKeys)

\* critical (foo) in f, critical (bar), an unnamed critical and critical
\* (foo) in g: two mutexes, the first and the last construct share one.
C23_Witness ==
  /\ Len(crit_lowered) = 4
  /\ crit_lowered[1].name = <<"foo">> /\ crit_lowered[1].fn = "f"
  /\ crit_lowered[2].name = <<"bar">>
  /\ crit_lowered[3].name = NULL_TREE
  /\ crit_lowered[4].name = <<"foo">> /\ crit_lowered[4].fn = "g"
  /\ crit_lowered[4].lock.args = crit_lowered[1].lock.args
  /\ Cardinality(TableKeys) = 2


(***************************************************************************)
(* The iteration count of the static expansions.                           *)
(***************************************************************************)
\* expand_omp_for reads the header: extract_omp_for_data (..., &fd).
expand_omp_for_extract ==
  /\ ic_stmt # <<>> /\ ic_fd = NULL_TREE
  /\ ic_fd' = <<extract_omp_for_data(ic_stmt)>>
  /\ UNCHANGED <<ic_stmt, ic_n>>
  /\ UNCHANGED OtherThanCount

\* The entry block of the static expansions computes n.
static_iteration_count ==
  /\ ic_fd # NULL_TREE /\ ic_n = NULL_TREE
  /\ ic_n' = <<IterCount(ic_fd[1])>>
  /\ UNCHANGED <<ic_stmt, ic_fd>>
  /\ UNCHANGED OtherThanCount

NextCount ==
  \/ expand_omp_for_extract
  \/ static_iteration_count

\* Every loop header over the iterator type: any N1 and N2, any increment
\* other than 0, added or subtracted, any of the four conditions.
InitCount ==
  /\ IdleButCount
  /\ ic_stmt \in {f \in ForStmts(TypeRange, TypeRange, TypeRange \ {0}) :
                    /\ ~f.nowait /\ ~f.ordered
                    /\ f.sched = "none" /\ f.chunk = NULL_TREE}
  /\ ic_fd = NULL_TREE
  /\ ic_n = NULL_TREE

SpecCount == InitCount /\ [][NextCount]_vars

\* C24: for a loop whose step has the sign of its direction and whose
\* iterator stays in its type, extract_omp_for_data turns V <= N2 into
\* V < N2 + 1, V >= N2 into V > N2 - 1 and V = V - S into the step -S, and
\* the count n computed from the normalised header is the number of
\* iterations of the loop as written.
C24_IterationCount ==
  (ic_n # NULL_TREE /\ ConformingFor(ic_stmt)
     /\ (ic_fd[1].cond_code = "LT_EXPR") = (ic_fd[1].step > 0)) =>
    /\ ic_fd[1].n1 = ic_stmt.n1
    /\ ic_stmt.cond = "LE_EXPR" =>
         ic_fd[1].cond_code = "LT_EXPR" /\ ic_fd[1].n2 = Wrap(ic_stmt.n2 + 1)
    /\ ic_stmt.cond = "GE_EXPR" =>
         ic_fd[1].cond_code = "GT_EXPR" /\ ic_fd[1].n2 = Wrap(ic_stmt.n2 - 1)
    /\ ic_stmt.cond \in {"LT_EXPR", "GT_EXPR"} =>
         ic_fd[1].cond_code = ic_stmt.cond /\ ic_fd[1].n2 = ic_stmt.n2
    /\ ic_stmt.incr = "MINUS_EXPR" => ic_fd[1].step = Wrap(0 - ic_stmt.s)
    /\ ic_stmt.incr = "PLUS_EXPR" => ic_fd[1].step = ic_stmt.s
    /\ ic_n[1] = Len(SrcIterations(ic_stmt, ic_stmt.n1))

(***************************************************************************)
(* A parallel nested in a parallel: the walk of use_pointer_for_field over *)
(* the contexts in between, at scan time and at lowering time.             *)
(***************************************************************************)

\* The most constructs between the two parallels.
MaxBetween == 2

\* A context of the chain: the construct, the clause of the construct that
\* names the variable ("none" without one), and whether the decl_map of the
\* context maps the variable.
Context(code, clause, decl_map) ==
  [code |-> code, clause |-> clause, decl_map |-> decl_map]

\* is_parallel_ctx
is_parallel_ctx(ctx) == ctx.code = "OMP_PARALLEL"

\* The loop of use_pointer_for_field over shared_ctx->outer: up is the
\* first context, of any kind, whose decl_map maps the variable; the
\* clauses are searched only if up is a parallel.
OuterMapping(chain) ==
  LET mapped == {i \in DOMAIN chain : chain[i].decl_map}
  IN IF mapped = {} THEN "none"
     ELSE LET up == CHOOSE i \in mapped : \A j \in mapped : i <= j
          IN IF is_parallel_ctx(chain[up])
               THEN IF chain[up].clause = "OMP_CLAUSE_SHARED"
                      THEN "parallel_shared"
                      ELSE "parallel_other"
             ELSE "workshare"

\* The variable as the nested parallel sees it through the chain.
SeenThrough(d, chain) == [d EXCEPT !.outer = OuterMapping(chain)]

\* The context of the nested parallel: parallel_nesting_level > 1.
NestedCtx == [is_nested |-> TRUE]

\* One step of the scan of the outer parallel's body.
ScanStep(op, ctx) == [op |-> op, ctx |-> ctx]

\* The body of the outer parallel in the order scan_omp walks it: the
\* constructs from the outermost (the last of between) inwards, each with
\* the reference to the variable it may hold before the next construct,
\* the nested parallel, and the references that follow it, innermost
\* first; then the lowering.
RECURSIVE ScanInwards(_, _)
ScanInwards(between, i) ==
  IF i = 0 THEN <<ScanStep("OMP_PARALLEL", 0)>>
  ELSE <<ScanStep("context", i)>>
         \o (IF between[i].ref_before THEN <<ScanStep("VAR_DECL", i)>>
             ELSE <<>>)
         \o ScanInwards(between, i - 1)
         \o (IF between[i].ref_after THEN <<ScanStep("VAR_DECL", i)>>
             ELSE <<>>)

\* scan_omp_1 on a construct between the parallels: a new context, whose
\* clauses scan_sharing_clauses scans; a private or firstprivate clause
\* installs a local clone of the variable.
scan_omp_1_construct ==
  /\ cx_todo # <<>>
  /\ Head(cx_todo).op = "context"
  /\ LET i == Head(cx_todo).ctx
         c == cx_chain[i]
         sc == IF c.clause = "none" THEN FALSE
               ELSE ScanClause(Clause(c.clause, "x", "none", FALSE, FALSE),
                               SeenThrough(cx_decl[1], <<>>),
                               [is_nested |-> FALSE]).local
     IN cx_chain' = [cx_chain EXCEPT ![i].decl_map = sc]
  /\ cx_todo' = Tail(cx_todo)
  /\ UNCHANGED <<cx_decl, cx_field, cx_send, cx_recv>>
  /\ UNCHANGED OtherThanCtx

\* scan_omp_1 on a reference to the variable in the body of a construct:
\* *tp = remap_decl (t, &ctx->cb) looks the variable up in the decl_map of
\* the context and, if it is not there, records what omp_copy_decl found
\* in the outer contexts in that decl_map.
scan_omp_1_var ==
  /\ cx_todo # <<>>
  /\ Head(cx_todo).op = "VAR_DECL"
  /\ cx_chain' = [cx_chain EXCEPT ![Head(cx_todo).ctx].decl_map = TRUE]
  /\ cx_todo' = Tail(cx_todo)
  /\ UNCHANGED <<cx_decl, cx_field, cx_send, cx_recv>>
  /\ UNCHANGED OtherThanCtx

\* scan_omp_parallel on the nested parallel: scan_sharing_clauses installs
\* the field of the shared variable with the decision of that moment.
scan_omp_parallel_nested ==
  /\ cx_todo # <<>>
  /\ Head(cx_todo).op = "OMP_PARALLEL"
  /\ cx_field' = ScanClause(Clause("OMP_CLAUSE_SHARED", "x", "none", FALSE,
                                   FALSE),
                            SeenThrough(cx_decl[1], cx_chain),
                            NestedCtx).field
  /\ cx_todo' = Tail(cx_todo) \o <<ScanStep("lower", 0)>>
  /\ UNCHANGED <<cx_decl, cx_chain, cx_send, cx_recv>>
  /\ UNCHANGED OtherThanCtx

\* lower_omp_parallel on the nested parallel, after the whole function has
\* been scanned: lower_rec_input_clauses and lower_send_shared_vars each
\* ask use_pointer_for_field again.
lower_omp_parallel_nested ==
  /\ cx_todo # <<>>
  /\ Head(cx_todo).op = "lower"
  /\ cx_field # NULL_TREE
  /\ LET d == SeenThrough(cx_decl[1], cx_chain)
     IN /\ cx_recv' = <<SharedReceiverByRef(d, NestedCtx)>>
        /\ cx_send' = <<use_pointer_for_field(d, <<NestedCtx>>)>>
  /\ cx_todo' = Tail(cx_todo)
  /\ UNCHANGED <<cx_decl, cx_chain, cx_field>>
  /\ UNCHANGED OtherThanCtx

NextCtx ==
  \/ scan_omp_1_construct
  \/ scan_omp_1_var
  \/ scan_omp_parallel_nested
  \/ lower_omp_parallel_nested

\* The constructs that may lie between: a loop without a clause for the
\* variable or with a private or firstprivate one, a critical section;
\* each with or without a reference to the variable before and after the
\* construct it holds.
BetweenConstructs ==
  [code : {"OMP_FOR"},
   clause : {"none", "OMP_CLAUSE_PRIVATE", "OMP_CLAUSE_FIRSTPRIVATE"},
   ref_before : BOOLEAN, ref_after : BOOLEAN]
    \cup [code : {"OMP_CRITICAL"}, clause : {"none"},
          ref_before : BOOLEAN, ref_after : BOOLEAN]

BetweenLists ==
  UNION {[1 .. n -> BetweenConstructs] : n \in 0 .. MaxBetween}

\* The variables the two parallels may share: automatic and not read-only.
SharedDecls ==
  {d \in Decls : /\ ~d.readonly /\ ~d.static /\ ~d.external
                 /\ ~d.result_decl /\ ~d.value_expr /\ d.outer = "none"}

\* The outer parallel has been entered and its shared clause scanned: its
\* context maps the variable unless the variable is global.
InitCtx ==
  /\ \E d \in SharedDecls, between \in BetweenLists :
       /\ cx_decl = <<d>>
       /\ cx_chain =
            [i \in 1 .. Len(between) |->
               Context(between[i].code, between[i].clause, FALSE)]
              \o <<Context("OMP_PARALLEL", "OMP_CLAUSE_SHARED",
                           ScanClause(Clause("OMP_CLAUSE_SHARED", "x",
                                             "none", FALSE, FALSE),
                                      d, [is_nested |-> FALSE]).local)>>
       /\ cx_todo = ScanInwards(between, Len(between))
  /\ cx_field = NULL_TREE
  /\ cx_send = NULL_TREE
  /\ cx_recv = NULL_TREE
  /\ IdleButCtx

SpecCtx == InitCtx /\ [][NextCtx]_vars

\* No construct between the parallels names the variable in a clause.
NoClauseBetween ==
  \A i \in DOMAIN cx_chain :
    ~is_parallel_ctx(cx_chain[i]) => cx_chain[i].clause = "none"

\* C25: a variable that is not read-only, shared by a parallel nested in a
\* parallel that shares it too, is passed by address to the nested
\* parallel whatever lies between the two and whatever the contexts in
\* between map, and the decision of the scan is the decision of the
\* lowering. Checked where the claim is most at ease: no construct in
\* between has a clause for the variable, so that the variable of the
\* nested clause is the one the outer parallel shares.
C25_NestedSharedByAddress ==
  NoClauseBetween =>
    /\ cx_field # NULL_TREE => cx_field[1].by_ref
    /\ cx_send # NULL_TREE =>
         /\ cx_send[1] /\ cx_recv[1]
         /\ cx_send[1] = cx_field[1].by_ref
         /\ cx_recv[1] = cx_field[1].by_ref

\* C18 for the field of a nested parallel: pointer type exactly when the
\* parent stores an address and the child dereferences, the constructs
\* between the parallels holding no clause for the variable.
C18_SameDecisionNested ==
  (cx_send # NULL_TREE /\ NoClauseBetween) =>
    /\ cx_send[1] = cx_field[1].by_ref
    /\ cx_recv[1] = cx_field[1].by_ref

(***************************************************************************)
(* The lastprivate clause of a loop expanded with the static schedule: the *)
(* iterator initialised before the loop, the predicate tested after it.    *)
(***************************************************************************)

\* lower_omp_for_lastprivate: the code of the predicate on (V, N2);
\* step_const tells whether STEP is an integer constant.
LastprivateCondCode(f, step_const) ==
  IF step_const /\ (f.step = 1 \/ f.step = 0 - 1) THEN "EQ_EXPR"
  ELSE IF f.cond_code = "LT_EXPR" THEN "GE_EXPR" ELSE "LE_EXPR"

\* lower_omp_for_lastprivate: the value V is given before the loop;
\* n2_const tells whether N2 is an integer constant.
LastprivateVinit(f, step_const, n2_const) ==
  IF LastprivateCondCode(f, step_const) = "EQ_EXPR" /\ n2_const /\ f.n2 # 0
    THEN 0
    ELSE f.n1

\* The predicate that gates the copy-out.
LastprivatePredicate(f, step_const, v) ==
  CASE LastprivateCondCode(f, step_const) = "EQ_EXPR" -> v = f.n2
    [] LastprivateCondCode(f, step_const) = "GE_EXPR" -> v >= f.n2
    [] LastprivateCondCode(f, step_const) = "LE_EXPR" -> v <= f.n2

\* The statements lower_omp_for puts after OMP_CONTINUE and before
\* OMP_RETURN, run by thread tid when it has left the loop: the predicate
\* is tested on the thread's V and the copy-out is done if it holds.
lastprivate_dlist(tid) ==
  /\ emitted.shape \in {"static_nochunk", "static_chunk"}
  /\ pc[tid] = "exit_bb"
  /\ lp_copied[tid] = NULL_TREE
  /\ lp_copied' = [lp_copied EXCEPT ![tid] =
                     <<LastprivatePredicate(fd, lp_const.step, loc[tid].V)>>]
  /\ UNCHANGED lp_const
  /\ UNCHANGED OtherThanLast

\* OMP_RETURN follows the lastprivate statements.
lastprivate_exit_bb(tid) ==
  /\ lp_copied[tid] # NULL_TREE
  /\ static_exit_bb(tid)

NextLastprivate ==
  \/ expand_omp_for
  \/ \E tid \in Threads : nochunk_entry_bb(tid)
  \/ \E tid \in Threads : nochunk_seq_start_bb(tid)
  \/ \E tid \in Threads : nochunk_body_bb(tid)
  \/ \E tid \in Threads : chunk_entry_bb(tid)
  \/ \E tid \in Threads : chunk_iter_part_bb(tid)
  \/ \E tid \in Threads : chunk_seq_start_bb(tid)
  \/ \E tid \in Threads : chunk_body_bb(tid)
  \/ \E tid \in Threads : chunk_trip_update_bb(tid)
  \/ \E tid \in Threads : lastprivate_dlist(tid)
  \/ \E tid \in Threads : lastprivate_exit_bb(tid)

\* Values of N2 of the loops with a lastprivate clause.
LastprivateN2Range == (0 - 3) .. 4

\* The loops with a lastprivate clause: conforming, static with or without
\* a chunk, with a barrier at the end.
LastprivateLoops ==
  {f \in NochunkLoops \cup ChunkLoops :
     /\ ~f.nowait
     /\ f.n2 \in LastprivateN2Range
     /\ f.chunk \in {NULL_TREE, <<1>>, <<2>>}}

\* The statement V = vinit that lower_omp_for_lastprivate puts before the
\* loop has run in every thread of the team.
InitLastprivate ==
  /\ \E f \in LastprivateLoops, nt \in 1 .. MaxThreads,
        step_const \in BOOLEAN, n2_const \in BOOLEAN :
       LET f_d == extract_omp_for_data(f)
       IN /\ fd = f_d
          /\ region = [cont |-> TRUE, is_combined_parallel |-> FALSE,
                       nowait |-> FALSE]
          /\ nthreads = nt
          /\ emitted = NotExpanded
          /\ pc = [t \in 0 .. nt - 1 |-> "entry_bb"]
          /\ loc = [t \in 0 .. nt - 1 |->
                      [LocInit EXCEPT
                         !.V = LastprivateVinit(f_d, step_const, n2_const),
                         !.Vdef = TRUE]]
          /\ ran = [t \in 0 .. nt - 1 |-> [v \in TypeRange |-> 0]]
          /\ trace = [t \in 0 .. nt - 1 |-> <<>>]
          /\ lp_const = [step |-> step_const, n2 |-> n2_const]
          /\ lp_copied = [t \in 0 .. nt - 1 |-> NULL_TREE]
  /\ AtomicIdle /\ BarrierIdle /\ DiagIdle /\ NestIdle /\ ParIdle
  /\ ShareIdle /\ LowerIdle /\ SectIdle /\ CritIdle /\ CountIdle /\ CtxIdle
  /\ RegionIdle /\ PluginIdle

SpecLastprivate == InitLastprivate /\ [][NextLastprivate]_vars

\* Thread tid ran the sequentially last iteration of the loop.
RanLastIteration(tid) ==
  /\ SrcIterationsOfFd # <<>>
  /\ ran[tid][SrcIterationsOfFd[Len(SrcIterationsOfFd)]] > 0

\* The products s0 = (trip * nthreads + threadid) * CHUNK of the chunked
\* schedule stay in the iterator type.
ChunkArithmeticFits ==
  fd.chunk_size # NULL_TREE =>
    Len(SrcIterationsOfFd) + nthreads * fd.chunk_size[1] \in TypeRange

\* C26: after the loop a thread satisfies the lastprivate predicate if and
\* only if it ran the sequentially last iteration; a thread that ran no
\* iteration does not perform the copy-out. Stated for the loops whose
\* schedule arithmetic does not overflow.
C26_LastprivateThread ==
  ChunkArithmeticFits =>
    \A tid \in DOMAIN lp_copied :
      lp_copied[tid] # NULL_TREE =>
        (lp_copied[tid][1] <=> RanLastIteration(tid))

(***************************************************************************)
(* build_omp_regions_1 over the dominator tree, then remove_exit_barriers  *)
(* and expand_omp over the regions it built.                               *)
(***************************************************************************)

\* The blocks of the function; block 1 is ENTRY_BLOCK_PTR.
MaxBlocks == 5

Blocks == 1 .. MaxBlocks

\* The directives that open a region.
RegionCodes ==
  {"OMP_PARALLEL", "OMP_FOR", "OMP_SECTIONS", "OMP_SECTION",
   "OMP_ATOMIC_LOAD"}

\* The statements a block can end with: one that is no directive
\* ("none"), or a directive (OMP_DIRECTIVE_P).
LastStmtCodes ==
  {"none", "OMP_RETURN", "OMP_ATOMIC_STORE", "OMP_CONTINUE",
   "OMP_SECTIONS_SWITCH"} \cup RegionCodes

\* struct omp_region; regions are named by their index, 0 is NULL.
Region(outer, entry, type, next) ==
  [outer |-> outer, entry |-> entry, type |-> type, next |-> next,
   inner |-> 0, exit |-> 0, cont |-> 0]

\* The parent left open by an OMP_RETURN the other way: the region stays
\* open.
ReopenedParentSame(regions, parent) == parent

\* parent = parent->outer.
ReopenedParent(regions, parent) == regions[parent].outer

\* new_omp_region: the region is put at the head of the inner list of its
\* parent, or of the toplevel list.
new_omp_region(regions, root, bb, type, parent) ==
  LET r == Len(regions) + 1
      next == IF parent # 0 THEN regions[parent].inner ELSE root
      linked == IF parent # 0 THEN [regions EXCEPT ![parent].inner = r]
                ELSE regions
  IN [regions |-> Append(linked, Region(parent, bb, type, next)),
      root |-> IF parent # 0 THEN root ELSE r,
      region |-> r]

\* The sons of bb in the dominator tree, first_dom_son first.
RECURSIVE DomSonsFrom(_, _, _)
DomSonsFrom(dom, bb, b) ==
  IF b > Len(dom) THEN <<>>
  ELSE (IF dom[b] = bb THEN <<b>> ELSE <<>>) \o DomSonsFrom(dom, bb, b + 1)

\* One call of build_omp_regions_1 (bb, parent, false): the switch on the
\* last statement of bb, then the calls for the sons of bb, which all get
\* the parent the switch left.
build_omp_regions_1 ==
  /\ ex_phase = "build_omp_regions"
  /\ bo_calls # <<>>
  /\ LET bb == bo_calls[1][1]
         parent == bo_calls[1][2]
         code == last_stmt[bb]
         made == new_omp_region(omp_regions, root_omp_region, bb, code,
                                parent)
         after ==
           CASE code = "none" \/ code = "OMP_SECTIONS_SWITCH" ->
                  [regions |-> omp_regions, root |-> root_omp_region,
                   parent |-> parent]
             [] code \in {"OMP_RETURN", "OMP_ATOMIC_STORE"} ->
                  [regions |-> [omp_regions EXCEPT ![parent].exit = bb],
                   root |-> root_omp_region,
                   parent |-> ReopenedParent(omp_regions, parent)]
             [] code = "OMP_CONTINUE" ->
                  [regions |-> [omp_regions EXCEPT ![parent].cont = bb],
                   root |-> root_omp_region, parent |-> parent]
             [] OTHER ->
                  [regions |-> made.regions, root |-> made.root,
                   parent |-> made.region]
         sons == DomSonsFrom(idom, bb, 1)
     IN /\ omp_regions' = after.regions
        /\ root_omp_region' = after.root
        /\ bo_parent' = [bo_parent EXCEPT ![bb] = <<parent>>]
        /\ bo_calls' = [i \in 1 .. Len(sons) |-> <<sons[i], after.parent>>]
                         \o Tail(bo_calls)
  /\ UNCHANGED <<idom, last_stmt, rx_visited, ex_stack, ex_order, ex_phase>>
  /\ UNCHANGED OtherThanRegion

\* The list that starts at region r and follows next.
RECURSIVE NextList(_, _)
NextList(regions, r) ==
  IF r = 0 THEN <<>> ELSE <<r>> \o NextList(regions, regions[r].next)

\* The regions remove_exit_barriers (r) calls itself on: r, and from each
\* region of the inner list of r.
RECURSIVE BarriersVisited(_, _)
BarriersVisited(regions, r) ==
  {r} \cup UNION {BarriersVisited(regions, c) :
                    c \in Range(NextList(regions, regions[r].inner))}

\* execute_expand_omp once build_omp_regions has returned: nothing more
\* without a region, else remove_exit_barriers (root_omp_region) and the
\* call of expand_omp (root_omp_region).
execute_expand_omp ==
  /\ ex_phase = "build_omp_regions"
  /\ bo_calls = <<>>
  /\ IF root_omp_region = 0
       THEN /\ ex_phase' = "done"
            /\ UNCHANGED <<rx_visited, ex_stack>>
       ELSE /\ rx_visited' = BarriersVisited(omp_regions, root_omp_region)
            /\ ex_stack' = <<[region |-> root_omp_region, at |-> "while"]>>
            /\ ex_phase' = "expand_omp"
  /\ UNCHANGED <<idom, last_stmt, omp_regions, root_omp_region, bo_calls,
                 bo_parent, ex_order>>
  /\ UNCHANGED OtherThanRegion

\* expand_omp at the head of its loop: it returns when region is NULL;
\* otherwise it calls itself on the inner list first, if there is one.
expand_omp_while ==
  /\ ex_phase = "expand_omp"
  /\ ex_stack # <<>>
  /\ ex_stack[1].at = "while"
  /\ LET region_ == ex_stack[1].region
     IN IF region_ = 0
          THEN /\ ex_stack' = Tail(ex_stack)
               /\ ex_phase' = IF Tail(ex_stack) = <<>> THEN "done"
                              ELSE ex_phase
          ELSE /\ ex_stack' =
                    (IF omp_regions[region_].inner # 0
                       THEN <<[region |-> omp_regions[region_].inner,
                               at |-> "while"]>>
                       ELSE <<>>)
                      \o <<[region |-> region_, at |-> "switch"]>>
                      \o Tail(ex_stack)
               /\ UNCHANGED ex_phase
  /\ UNCHANGED <<idom, last_stmt, omp_regions, root_omp_region, bo_calls,
                 bo_parent, rx_visited, ex_order>>
  /\ UNCHANGED OtherThanRegion

\* expand_omp at its switch: every type but OMP_SECTION has an expander;
\* then region = region->next.
expand_omp_switch ==
  /\ ex_phase = "expand_omp"
  /\ ex_stack # <<>>
  /\ ex_stack[1].at = "switch"
  /\ LET region_ == ex_stack[1].region
     IN /\ ex_order' = IF omp_regions[region_].type = "OMP_SECTION"
                         THEN ex_order
                         ELSE Append(ex_order, region_)
        /\ ex_stack' = <<[region |-> omp_regions[region_].next,
                          at |-> "while"]>> \o Tail(ex_stack)
  /\ UNCHANGED <<idom, last_stmt, omp_regions, root_omp_region, bo_calls,
                 bo_parent, rx_visited, ex_phase>>
  /\ UNCHANGED OtherThanRegion

NextRegion ==
  \/ build_omp_regions_1
  \/ execute_expand_omp
  \/ expand_omp_while
  \/ expand_omp_switch

\* The entry blocks of the regions open when the walk leaves block b,
\* innermost first, read off the path from the entry block to b.
RECURSIVE OpenAfter(_, _, _)
OpenAfter(dom, last, b) ==
  IF b = 0 THEN <<>>
  ELSE LET before == OpenAfter(dom, last, dom[b])
       IN IF last[b] \in RegionCodes THEN <<b>> \o before
          ELSE IF last[b] \in {"OMP_RETURN", "OMP_ATOMIC_STORE"}
                    /\ before # <<>>
            THEN Tail(before)
          ELSE before

\* The regions open when the walk reaches block b.
OpenAt(dom, last, b) == OpenAfter(dom, last, dom[b])

\* The markers are well nested: a return, a continue or a switch has an
\* open region of the right kind, a section lies directly in a sections
\* region, and no region has two exits or two continue blocks.
WellNestedMarkers(dom, last) ==
  LET open(b) == OpenAt(dom, last, b)
      inner(b) == last[open(b)[1]]
      closes(b) == last[b] \in {"OMP_RETURN", "OMP_ATOMIC_STORE"}
  IN /\ \A b \in DOMAIN last :
          /\ last[b] \in {"OMP_RETURN", "OMP_ATOMIC_STORE", "OMP_CONTINUE",
                          "OMP_SECTIONS_SWITCH", "OMP_SECTION"}
               => open(b) # <<>>
          /\ last[b] = "OMP_ATOMIC_STORE" => inner(b) = "OMP_ATOMIC_LOAD"
          /\ last[b] = "OMP_RETURN" => inner(b) # "OMP_ATOMIC_LOAD"
          /\ last[b] = "OMP_CONTINUE"
               => inner(b) \in {"OMP_FOR", "OMP_SECTIONS"}
          /\ last[b] \in {"OMP_SECTIONS_SWITCH", "OMP_SECTION"}
               => inner(b) = "OMP_SECTIONS"
          /\ (last[b] \in RegionCodes /\ open(b) # <<>>)
               => inner(b) # "OMP_ATOMIC_LOAD"
     /\ \A b, c \in DOMAIN last :
          (b # c /\ last[b] = last[c] /\ (closes(b) \/ last[b] = "OMP_CONTINUE"))
            => open(b)[1] # open(c)[1]

\* The dominator trees of the model: the entry block ends with no
\* directive, every other block is dominated by one of the two blocks
\* before it.
DomTrees ==
  {d \in [Blocks -> 0 .. MaxBlocks] :
     /\ d[1] = 0
     /\ \A b \in Blocks \ {1} : d[b] < b /\ d[b] >= b - 2 /\ d[b] >= 1}

InitRegion ==
  /\ idom \in DomTrees
  /\ last_stmt \in [Blocks -> LastStmtCodes]
  /\ last_stmt[1] = "none"
  /\ WellNestedMarkers(idom, last_stmt)
  /\ omp_regions = <<>>
  /\ root_omp_region = 0
  /\ bo_calls = <<<<1, 0>>>>
  /\ bo_parent = [b \in Blocks |-> NULL_TREE]
  /\ rx_visited = {}
  /\ ex_stack = <<>>
  /\ ex_order = <<>>
  /\ ex_phase = "build_omp_regions"
  /\ IdleButRegion

SpecRegion == InitRegion /\ [][NextRegion]_vars

\* The region whose entry is block b, 0 if b opened none.
RegionOf(b) ==
  IF \E r \in DOMAIN omp_regions : omp_regions[r].entry = b
    THEN CHOOSE r \in DOMAIN omp_regions : omp_regions[r].entry = b
    ELSE 0

\* The innermost region open when the walk reaches b, 0 if none is.
InnermostOpen(b) ==
  IF OpenAt(idom, last_stmt, b) = <<>> THEN 0
  ELSE RegionOf(OpenAt(idom, last_stmt, b)[1])

\* C27: when the walk is over, every directive that opens a region has
\* exactly one region, with its block as entry and the region open at the
\* block as parent; every OMP_RETURN and OMP_ATOMIC_STORE has set the exit
\* of the innermost open region and the blocks it dominates were walked
\* with that region's parent; every OMP_CONTINUE has set the continue block
\* of the innermost open region; an OMP_SECTIONS_SWITCH has left no trace.
C27_RegionTree ==
  (ex_phase # "none" /\ bo_calls = <<>>) =>
    /\ Len(omp_regions)
         = Cardinality({b \in Blocks : last_stmt[b] \in RegionCodes})
    /\ \A b \in Blocks :
         /\ bo_parent[b] = <<InnermostOpen(b)>>
         /\ last_stmt[b] \in RegionCodes =>
              /\ Cardinality({r \in DOMAIN omp_regions :
                                omp_regions[r].entry = b}) = 1
              /\ omp_regions[RegionOf(b)].type = last_stmt[b]
              /\ omp_regions[RegionOf(b)].outer = InnermostOpen(b)
         /\ last_stmt[b] \in {"OMP_RETURN", "OMP_ATOMIC_STORE"} =>
              /\ omp_regions[InnermostOpen(b)].exit = b
              /\ last_stmt[b] = "OMP_ATOMIC_STORE" =>
                   omp_regions[InnermostOpen(b)].type = "OMP_ATOMIC_LOAD"
              /\ \A son \in Range(DomSonsFrom(idom, b, 1)) :
                   bo_parent[son]
                     = <<omp_regions[InnermostOpen(b)].outer>>
         /\ last_stmt[b] = "OMP_CONTINUE" =>
              omp_regions[InnermostOpen(b)].cont = b
         /\ last_stmt[b] \in {"OMP_SECTIONS_SWITCH", "none"} =>
              /\ \A r \in DOMAIN omp_regions :
                   /\ omp_regions[r].entry # b
                   /\ omp_regions[r].exit # b
                   /\ omp_regions[r].cont # b
              /\ \A son \in Range(DomSonsFrom(idom, b, 1)) :
                   bo_parent[son] = bo_parent[b]

\* A loop region with an atomic region in it, both closed: the walk has
\* reopened the loop for the block after the atomic store.
C27_Witness ==
  /\ bo_calls = <<>>
  /\ \E r, a \in DOMAIN omp_regions :
       /\ omp_regions[r].type = "OMP_FOR"
       /\ omp_regions[a].type = "OMP_ATOMIC_LOAD"
       /\ omp_regions[a].outer = r
       /\ omp_regions[a].exit # 0
       /\ omp_regions[r].exit # 0
       /\ omp_regions[r].exit # omp_regions[a].exit
       /\ bo_parent[omp_regions[r].exit] = <<r>>

\* Region r lies in region q.
RECURSIVE NestedIn(_, _)
NestedIn(r, q) ==
  /\ omp_regions[r].outer # 0
  /\ (omp_regions[r].outer = q \/ NestedIn(omp_regions[r].outer, q))

\* The places of region r in the order of expansion.
ExpandedAt(r) == {i \in DOMAIN ex_order : ex_order[i] = r}

\* Every region but the sections has been expanded once, the regions in a
\* region before the region itself.
ExpandedInnermostFirst ==
  /\ \A r \in DOMAIN omp_regions :
       Cardinality(ExpandedAt(r))
         = IF omp_regions[r].type = "OMP_SECTION" THEN 0 ELSE 1
  /\ \A r, q \in DOMAIN omp_regions :
       NestedIn(r, q) =>
         \A i \in ExpandedAt(r), j \in ExpandedAt(q) : i < j

\* C28: expand_omp expands every region once, innermost first, the section
\* regions excepted; and when the first region is expanded
\* remove_exit_barriers has been over every region of the tree.
C28_ExpandOrder ==
  /\ ex_phase = "done" => ExpandedInnermostFirst
  /\ ex_phase \in {"expand_omp", "done"} =>
       rx_visited = DOMAIN omp_regions

(***************************************************************************)
(* Specification: the compare-and-swap loop under a fair scheduler.        *)
(***************************************************************************)
\* The steps of thread tid in the loop.
pipeline_thread(tid) ==
  /\ tid \in AThreads
  /\ \/ pipeline_load_bb(tid)
     \/ pipeline_loop_header(tid)
     \/ pipeline_store_bb(tid)

\* The compiler finishes, and a thread that can take a step is not kept
\* from it for ever.
SpecPipelineFair ==
  /\ SpecPipeline
  /\ WF_vars(expand_omp_atomic)
  /\ \A tid \in 0 .. MaxThreads - 1 : WF_vars(pipeline_thread(tid))

\* The compare-and-swap calls of thread tid that failed.
FailedCas(tid) ==
  aloc[tid].cas_calls - (IF tid \in Range(applied.order) THEN 1 ELSE 0)

\* One step of the loop: *addr changes only in the step in which a thread's
\* store succeeds and the thread leaves the loop; the value a thread takes
\* as expected value is the one *addr holds in that step; a thread goes
\* round again only when its compare-and-swap found *addr different from
\* the expected value.
CasStep ==
  /\ mem' # mem =>
       \E tid \in AThreads :
         /\ applied'.order = Append(applied.order, tid)
         /\ apc[tid] = "store_bb" /\ apc'[tid] = "done"
  /\ \A tid \in AThreads :
       /\ (apc[tid] \in {"load_bb", "store_bb"}
             /\ apc'[tid] = "loop_header") => aloc'[tid].loadedi = mem'
       /\ (apc[tid] = "store_bb" /\ apc'[tid] = "loop_header") =>
            /\ mem # aloc[tid].loadedi
            /\ mem' = mem
       /\ (apc[tid] = "store_bb" /\ apc'[tid] = "done") =>
            /\ mem = aloc[tid].loadedi
            /\ mem' = aloc[tid].storedi

\* A thread has failed no more often than other threads have succeeded,
\* and a thread whose expected value is stale has a successful store of
\* another thread before it.
CasProgress ==
  \A tid \in DOMAIN aloc :
    /\ FailedCas(tid) <= Cardinality(Range(applied.order) \ {tid})
    /\ (apc[tid] \in {"loop_header", "store_bb"}
          /\ aloc[tid].loadedi # mem) =>
         Range(applied.order) \ {tid} # {}

\* Every thread has left the loop.
AllLeft == \A tid \in DOMAIN apc : apc[tid] = "done"

MaxArgs == 3

\* struct plugin_argument: value is NULL_TREE for an argument without "=".
PluginArgument(key, value) == [key |-> key, value |-> value]

\* The body of the loop over the arguments with the test of the value
\* left out: the key alone decides.
ProcessArgumentIgnoringValue(enabled, check, arg) ==
  CASE arg.key = "check-operator-eq" ->
         [enabled |-> enabled, check |-> TRUE, warning |-> <<>>]
    [] arg.key = "no-check-operator-eq" ->
         [enabled |-> enabled, check |-> FALSE, warning |-> <<>>]
    [] arg.key = "enable" ->
         [enabled |-> TRUE, check |-> check, warning |-> <<>>]
    [] arg.key = "disable" ->
         [enabled |-> FALSE, check |-> check, warning |-> <<>>]
    [] OTHER ->
         [enabled |-> enabled, check |-> check,
          warning |-> <<"unrecognized argument">>]

\* The body of the loop over the arguments: enabled and check_operator_eq
\* after argument arg, and the warning given.
ProcessArgument(enabled, check, arg) ==
  LET known == {"check-operator-eq", "no-check-operator-eq", "enable",
                "disable"}
  IN IF arg.key \in known /\ arg.value # NULL_TREE
       THEN [enabled |-> enabled, check |-> check,
             warning |-> <<"superfluous value">>]
     ELSE CASE arg.key = "check-operator-eq" ->
                 [enabled |-> enabled, check |-> TRUE, warning |-> <<>>]
            [] arg.key = "no-check-operator-eq" ->
                 [enabled |-> enabled, check |-> FALSE, warning |-> <<>>]
            [] arg.key = "enable" ->
                 [enabled |-> TRUE, check |-> check, warning |-> <<>>]
            [] arg.key = "disable" ->
                 [enabled |-> FALSE, check |-> check, warning |-> <<>>]
            [] OTHER ->
                 [enabled |-> enabled, check |-> check,
                  warning |-> <<"unrecognized argument">>]

\* plugin_init up to the loop: the locals are initialised and the version
\* is checked; a failed check returns 1.
plugin_init_version_check ==
  /\ pi_pc = "plugin_init"
  /\ pi_enabled' = TRUE
  /\ IF pi_version_ok
       THEN /\ pi_i' = 1
            /\ pi_pc' = "for"
            /\ UNCHANGED pi_return
       ELSE /\ pi_return' = <<1>>
            /\ pi_pc' = "returned"
            /\ UNCHANGED pi_i
  /\ UNCHANGED <<pi_argv, pi_version_ok, check_operator_eq, pi_warnings,
                 pi_callbacks>>
  /\ UNCHANGED OtherThanPlugin

\* One turn of the loop over the arguments.
plugin_init_argument ==
  /\ pi_pc = "for"
  /\ pi_i <= Len(pi_argv)
  /\ LET p == ProcessArgument(pi_enabled, check_operator_eq, pi_argv[pi_i])
     IN /\ pi_enabled' = p.enabled
        /\ check_operator_eq' = p.check
        /\ pi_warnings' = pi_warnings \o p.warning
  /\ pi_i' = pi_i + 1
  /\ UNCHANGED <<pi_argv, pi_version_ok, pi_callbacks, pi_return, pi_pc>>
  /\ UNCHANGED OtherThanPlugin

\* After the loop: the plugin info is registered, the pass if enabled, and
\* 0 is returned.
plugin_init_register ==
  /\ pi_pc = "for"
  /\ pi_i > Len(pi_argv)
  /\ pi_callbacks' = pi_callbacks \o <<"PLUGIN_INFO">>
                       \o (IF pi_enabled THEN <<"PLUGIN_PASS_MANAGER_SETUP">>
                           ELSE <<>>)
  /\ pi_return' = <<0>>
  /\ pi_pc' = "returned"
  /\ UNCHANGED <<pi_argv, pi_version_ok, pi_i, pi_enabled, check_operator_eq,
                 pi_warnings>>
  /\ UNCHANGED OtherThanPlugin

NextPlugin ==
  \/ plugin_init_version_check
  \/ plugin_init_argument
  \/ plugin_init_register

\* The arguments of the model: the four keys the plugin knows and one it
\* does not, each with or without a value.
PluginArguments ==
  {PluginArgument(key, value) :
     key \in {"check-operator-eq", "no-check-operator-eq", "enable",
              "disable", "verbose"},
     value \in {NULL_TREE, <<"bar">>}}

\* The plugin has just been loaded: check_operator_eq has its initializer.
InitPlugin ==
  /\ pi_argv \in UNION {[1 .. n -> PluginArguments] : n \in 0 .. MaxArgs}
  /\ pi_version_ok \in BOOLEAN
  /\ pi_i = 0
  /\ pi_enabled = FALSE
  /\ check_operator_eq = TRUE
  /\ pi_warnings = <<>>
  /\ pi_callbacks = <<>>
  /\ pi_return = NULL_TREE
  /\ pi_pc = "plugin_init"
  /\ IdleButPlugin

SpecPlugin == InitPlugin /\ [][NextPlugin]_vars

\* The arguments without a value whose key is one of keys.
Valueless(keys) ==
  {i \in DOMAIN pi_argv :
     pi_argv[i].value = NULL_TREE /\ pi_argv[i].key \in keys}

\* The last argument of set wins: on if its key is on_key, and on if there
\* is none.
LastWins(set, on_key) ==
  set = {} \/
    pi_argv[CHOOSE i \in set : \A j \in set : j <= i].key = on_key

\* The arguments that only produce a warning.
WarnedArguments ==
  {i \in DOMAIN pi_argv :
     \/ pi_argv[i].value # NULL_TREE
     \/ pi_argv[i].key \notin {"check-operator-eq", "no-check-operator-eq",
                               "enable", "disable"}}

\* C30: plugin_init registers the pass exactly when the last valueless
\* enable or disable is an enable (or there is none); check_operator_eq is
\* what the last valueless check-operator-eq or no-check-operator-eq says;
\* the other arguments give one warning each and change nothing; the
\* plugin info is registered and 0 returned in both cases; a failed version
\* check returns 1 with nothing registered and nothing changed.
C30_PluginInit ==
  pi_return # NULL_TREE =>
    IF pi_version_ok
      THEN /\ pi_return = <<0>>
           /\ pi_callbacks =
                <<"PLUGIN_INFO">>
                  \o (IF LastWins(Valueless({"enable", "disable"}), "enable")
                        THEN <<"PLUGIN_PASS_MANAGER_SETUP">> ELSE <<>>)
           /\ check_operator_eq
                = LastWins(Valueless({"check-operator-eq",
                                      "no-check-operator-eq"}),
                           "check-operator-eq")
           /\ Len(pi_warnings) = Cardinality(WarnedArguments)
      ELSE /\ pi_return = <<1>>
           /\ pi_callbacks = <<>>
           /\ pi_warnings = <<>>
           /\ check_operator_eq

\* disable=bar is ignored with a warning after a plain disable and before a
\* plain enable: the pass is registered.
C30_Witness ==
  /\ pi_return = <<0>>
  /\ Len(pi_argv) = 3
  /\ pi_argv[1] = PluginArgument("enable", NULL_TREE)
  /\ pi_argv[2] = PluginArgument("no-check-operator-eq", NULL_TREE)
  /\ pi_argv[3] = PluginArgument("disable", <<"bar">>)
  /\ pi_callbacks = <<"PLUGIN_INFO", "PLUGIN_PASS_MANAGER_SETUP">>
  /\ ~check_operator_eq
  /\ Len(pi_warnings) = 1

====
